---- MODULE Spec2Model ----
(***************************************************************************)
(* A model of the unstuck asynchronous runtime: the Dispatcher (main       *)
(* queue, low-priority queue, timer heap, file-event table and poller),    *)
(* the Future cell, the asynchronous Queue and the ReadWrapper.            *)
(* Each component has its own specification over the shared variables.     *)
(***************************************************************************)
EXTENDS Integers, Sequences, FiniteSets, TLC

VARIABLES
    handleQueue,      \* Dispatcher.handleQueue: deque of scheduled entries
    lowQueue,         \* Dispatcher.lowPriorityHandleQueue
    heap,             \* Schedule.heap: set of timer entries (key = deadline)
    handles,          \* Dispatcher.handles: fd -> (mask -> handle)
    poller,           \* Dispatcher.pollingObject: fd -> interest mask
    now,              \* the clock read by time()
    cells,            \* the Future objects created so far (sequence of records)
    queue,            \* a Queue object: values, getwaiters, putwaiters, length
    qlog,             \* history: the values put and the cells returned by put and get
    reader,           \* a ReadWrapper object: its fields
    ws,               \* a Websocket object, its socket and its tasks
    wslog,            \* history: the sends called and begun, the frames written and
                      \*   handled, the messages passed on
    writer,           \* a WriteWrapper object: its fields
    wlog,             \* history: the buffers written and their cells in call order, the
                      \*   settlements of the cells in order, the bytes the file accepted
    rlog,             \* history: the read cells in request order with the length asked
                      \*   (-1: a line), their resolutions in order, the bytes iread returned
    invoked,          \* history: the entries invoked by runNextHandle, in order
    delivered,        \* history: the cb.send / cb.throw calls made on waiters, in order
    queuedAt,         \* history: entry id -> the ids in handleQueue, and the number of
                      \*   entries created, when the entry was put on handleQueue
    lastStep,         \* history: what the last operation did
    nextId,           \* history: number of entries created so far (ids are 1..nextId-1)
    ops,              \* history: number of inputs (calls, poll events) consumed so far
    clog,             \* history: the cells getResult was called on, and the cells destroyed
                      \*   with what __del__ raised, in order
    barrier,          \* a Barrier (aux.py): isDone and the list of callbacks (<<>>: None)
    blog,             \* history: the waiters attached to the Barrier, in order, how many were attached at its release, and the release calls made
    recurring,        \* a RecurringEvent (aux.py): running and stopping
    reclog,           \* history: the begin and stop calls that succeeded and the calls of the user callback, in order
    evfut,            \* the EventFuture (aux.py)
    evq,              \* the EventQueue (aux.py)
    elog,             \* history: the calls of the EventFuture's and the EventQueue's handle
    sock,             \* a stream socket (usocket.py): its kind, its state and the task running its close()
    slog,             \* history: the cells recv, send and accept returned, and the close and forceClose calls with the cells pending at the call
    greens,           \* the greenlets (core.py): _rootGreenlet, the current greenlet, and each greenlet's parent, loop flag and frames
    awlog,            \* history: the await calls with what they returned or raised, and how each cell was resolved
    task,             \* a _Task (core.py) around a generator that yields cells: where it stands, the cell it yielded last, the send and throw calls it received
    budget            \* the number of inputs explored (fixed by the initial state)

dispVars == <<handleQueue, lowQueue, heap, handles, poller, now>>
histVars == <<invoked, delivered, queuedAt, lastStep, nextId, ops, budget>>
\* The objects built on the dispatcher, and their histories.
objVars == <<queue, qlog, reader, rlog, writer, wlog, ws, wslog, clog, barrier, blog, recurring, reclog, evfut, evq, elog, sock, slog, greens, awlog, task>>
vars == <<handleQueue, lowQueue, heap, handles, poller, now, cells, queue, qlog, reader, rlog,
          writer, wlog, ws, wslog, clog, barrier, blog, recurring, reclog, evfut, evq, elog, sock, slog, greens, awlog, task,
          invoked, delivered, queuedAt, lastStep, nextId, ops, budget>>

(***************************************************************************)
(* Bounds of the model.                                                    *)
(***************************************************************************)
MaxOps == 3
MaxFdOps == 4
MaxCellOps == 3
NumCells == 2
MaxDelOps == 4
MaxBarrierOps == 5
MaxWaiters == 3
MaxRecurOps == 4
MaxIoOps == 5
MaxSockOps == 4
MaxAwaitOps == 6
MaxGreenlets == 4
MaxTaskOps == 5
MaxYields == 2
interval == 1
MaxTime == 2
MaxQueueOps == 6
MaxReadOps == 4
MaxData == 2
MaxRead == 2
MaxWriteOps == 4
MaxWrite == 2
MaxWsOps == 4
MaxSends == 2
MaxCloses == 1
MaxPayload == 3
maxSize == 1
queueLength == 1

(***************************************************************************)
(* Program constants.                                                      *)
(***************************************************************************)
inf == 1000000
None == "None"
FDs == {3}
Handlers == {"h1", "h2"}
Values == {"v1", "v2"}
Errors == {"e1", "e2"}
Waiters == {"w1", "w2"}
ErrBit == "EPOLLERR"
HupBit == "EPOLLHUP"
errorCheckingMask == {ErrBit, HupBit}
InBit == "EPOLLIN"
OutBit == "EPOLLOUT"
\* The masks callers register: non-zero combinations of the readiness bits.
RegMasks == {{InBit}, {OutBit}, {InBit, OutBit}}
\* The masks the poller reports for a descriptor with interest mask m.
PollMasks(m) == {a \in (SUBSET (m \cup errorCheckingMask)) \ {{}} :
                    Cardinality(a \cap errorCheckingMask) <= 1 /\ Cardinality(a) <= 2}

Times == 0..MaxTime

(***************************************************************************)
(* Helpers on sequences and sets.                                          *)
(***************************************************************************)
Range(s) == {s[i] : i \in 1..Len(s)}
Ids(s) == {s[i].id : i \in 1..Len(s)}
\* All orderings of a finite set as sequences.
Orderings(S) == {s \in [1..Cardinality(S) -> S] : \A i, j \in 1..Cardinality(S) : i # j => s[i] # s[j]}
MinKey(h) == CHOOSE k \in {e.key : e \in h} : \A e \in h : k <= e.key

\* The record kept in lastStep; every operation overwrites it.
EmptyMap == [x \in {} |-> 0]

NoStep == [op |-> "none", ok |-> TRUE, cell |-> 0, fd |-> 0, mask |-> {}, h |-> None, emptyBefore |-> FALSE, expired |-> {},
           drained |-> {}, polled |-> "no", events |-> FALSE, movedLow |-> 0, ran |-> 0, ranKind |-> "none"]

\* queuedAt extended for the entries ids put on the main queue q when n entries exist.
Stamped(qa, ids, q, n) ==
    [i \in (DOMAIN qa) \cup ids |->
        IF i \in ids THEN [queue |-> Ids(q), count |-> n] ELSE qa[i]]

\* An entry of a queue or of the heap: (handle, args) plus its identity.
\*   kind: "high" | "medium" | "low" | "timer" : a caller's opaque callback
\*         "fd"    : a registered file-event handle h, called with mask
\*         "sleep" : the inner() closure of sleep(), completing Future cell
\*         "send"  : cb.send(val) of the waiter h attached to Future cell
\*         "throw" : Future.__cbError(val) on Future cell with waiter h
Entry(i, k, key, c, h, m, v) ==
    [id |-> i, kind |-> k, key |-> key, cell |-> c, h |-> h, mask |-> m, val |-> v]

(***************************************************************************)
(* Dispatcher: the three scheduling calls and the timer heap               *)
(* (events.py, Schedule and Dispatcher).                                   *)
(***************************************************************************)
scheduleLowPriority(q, e) == Append(q, e)

scheduleMediumPriority(q, e) == Append(q, e)

\* Mutant: the entry is appended to the tail instead of the head.
scheduleHighPriorityAtTail(q, e) == Append(q, e)

scheduleHighPriority(q, e) == <<e>> \o q

scheduleHandleByTime(h, e) == h \cup {e}

\* Mutant: the difference is taken the wrong way round.
readyTimeReversed(h, t) == IF h = {} THEN inf ELSE t - MinKey(h)

\* readyTime(): inf for an empty heap, else the smallest key minus time().
readyTime(h, t) == IF h = {} THEN inf ELSE MinKey(h) - t

\* The loop "while self.readyTime() < 0.0: handleQueue.append(self.popHandle())"
\* run with the clock at t: it pops exactly the entries whose key is below t,
\* smallest key first; heapq leaves the order of equal keys open.
expiredAt(h, t) == {e \in h : e.key - t < 0}

\* Mutant: the expired entries come off the heap in no particular order.
drainOrdersUnsorted(h, t) == Orderings(expiredAt(h, t))

drainOrders(h, t) ==
    {s \in Orderings(expiredAt(h, t)) : \A i, j \in 1..Len(s) : i < j => s[i].key <= s[j].key}

(***************************************************************************)
(* Future (core.py).  A cell is a record; "Unset" marks an attribute the   *)
(* object does not have yet.  Every setter returns the new cells, the new  *)
(* main queue, the callback invocations it made itself and whether its     *)
(* assertion passed.                                                       *)
(***************************************************************************)
Unset == "Unset"

Future == [isDone |-> FALSE, cb |-> None, result |-> Unset, error |-> None,
           errorAccessed |-> Unset]

Outcome(ok, cs, q, d) == [ok |-> ok, cells |-> cs, hq |-> q, calls |-> d]

\* Mutant: the assertion "not self.isDone" is missing.
setResultUnguarded(cs, q, c, v, i) ==
    IF cs[c].cb # None
    THEN Outcome(TRUE, [cs EXCEPT ![c].isDone = TRUE],
                 scheduleHighPriority(q, Entry(i, "send", 0, c, cs[c].cb, {}, v)), <<>>)
    ELSE Outcome(TRUE, [cs EXCEPT ![c].isDone = TRUE, ![c].result = v], q, <<>>)

setResult(cs, q, c, v, i) ==
    IF cs[c].isDone THEN Outcome(FALSE, cs, q, <<>>)
    ELSE IF cs[c].cb # None
         THEN Outcome(TRUE, [cs EXCEPT ![c].isDone = TRUE],
                      scheduleHighPriority(q, Entry(i, "send", 0, c, cs[c].cb, {}, v)), <<>>)
         ELSE Outcome(TRUE, [cs EXCEPT ![c].isDone = TRUE, ![c].result = v], q, <<>>)

setResultLate(cs, q, c, v, i) ==
    IF cs[c].isDone THEN Outcome(FALSE, cs, q, <<>>)
    ELSE IF cs[c].cb # None
         THEN Outcome(TRUE, [cs EXCEPT ![c].isDone = TRUE],
                      scheduleMediumPriority(q, Entry(i, "send", 0, c, cs[c].cb, {}, v)), <<>>)
         ELSE Outcome(TRUE, [cs EXCEPT ![c].isDone = TRUE, ![c].result = v], q, <<>>)

setResultFast(cs, q, c, v, i) ==
    IF cs[c].isDone THEN Outcome(FALSE, cs, q, <<>>)
    ELSE IF cs[c].cb # None
         THEN Outcome(TRUE, [cs EXCEPT ![c].isDone = TRUE], q,
                      <<[cell |-> c, h |-> cs[c].cb, how |-> "send", val |-> v]>>)
         ELSE Outcome(TRUE, [cs EXCEPT ![c].isDone = TRUE, ![c].result = v], q, <<>>)

setError(cs, q, c, v, i) ==
    IF cs[c].isDone THEN Outcome(FALSE, cs, q, <<>>)
    ELSE IF cs[c].cb # None
         THEN Outcome(TRUE, [cs EXCEPT ![c].isDone = TRUE],
                      scheduleHighPriority(q, Entry(i, "throw", 0, c, cs[c].cb, {}, v)), <<>>)
         ELSE Outcome(TRUE, [cs EXCEPT ![c].isDone = TRUE, ![c].errorAccessed = "False",
                                       ![c].error = v], q, <<>>)

setErrorLate(cs, q, c, v, i) ==
    IF cs[c].isDone THEN Outcome(FALSE, cs, q, <<>>)
    ELSE IF cs[c].cb # None
         THEN Outcome(TRUE, [cs EXCEPT ![c].isDone = TRUE],
                      scheduleMediumPriority(q, Entry(i, "throw", 0, c, cs[c].cb, {}, v)), <<>>)
         ELSE Outcome(TRUE, [cs EXCEPT ![c].isDone = TRUE, ![c].errorAccessed = "False",
                                       ![c].error = v], q, <<>>)

setErrorFast(cs, q, c, v, i) ==
    IF cs[c].isDone THEN Outcome(FALSE, cs, q, <<>>)
    ELSE IF cs[c].cb # None
         THEN Outcome(TRUE, [cs EXCEPT ![c].isDone = TRUE, ![c].errorAccessed = "True"], q,
                      <<[cell |-> c, h |-> cs[c].cb, how |-> "throw", val |-> v]>>)
         ELSE Outcome(TRUE, [cs EXCEPT ![c].isDone = TRUE, ![c].errorAccessed = "False",
                                       ![c].error = v], q, <<>>)

\* Future.__cbError(error), the scheduled helper of setError / setErrorLate.
cbError(cs, c) == [cs EXCEPT ![c].errorAccessed = "True"]

setCallback(cs, c, w) == [cs EXCEPT ![c].cb = w]

\* What a call on a Future came to: the cells after it, what it raised (None:
\* nothing) and what it returned.
Ended(cs, raised, v) == [cells |-> cs, raised |-> raised, value |-> v]

\* Mutant: getResult raises the error without marking it as accessed.
getResultUnmarked(cs, c) ==
    IF cs[c].error # None THEN Ended(cs, cs[c].error, None)
    ELSE IF cs[c].result = Unset THEN Ended(cs, "AttributeError", None)
    ELSE Ended(cs, None, cs[c].result)

\* Future.getResult: a cell completed while a callback was attached has no
\* attribute "result".
getResult(cs, c) ==
    IF cs[c].error # None
    THEN Ended([cs EXCEPT ![c].errorAccessed = "True"], cs[c].error, None)
    ELSE IF cs[c].result = Unset THEN Ended(cs, "AttributeError", None)
    ELSE Ended(cs, None, cs[c].result)

\* Future.__del__, run when the cell is destroyed.
del(cs, c) ==
    IF cs[c].error # None /\ cs[c].errorAccessed = Unset THEN Ended(cs, "AttributeError", None)
    ELSE IF cs[c].error # None /\ cs[c].errorAccessed # "True" THEN Ended(cs, cs[c].error, None)
    ELSE Ended(cs, None, None)

(***************************************************************************)
(* Dispatcher: file-event registration (events.py).                        *)
(***************************************************************************)
MaskUnion(ms) == UNION ms

\* Mutant: the overlap with the masks already registered is not checked.
registerFileEventUnchecked(hs, pl, fd, mask, handle) ==
    IF fd \in DOMAIN hs
    THEN [ok |-> TRUE,
          handles |-> [hs EXCEPT ![fd] = [m \in (DOMAIN hs[fd]) \cup {mask} |->
                                            IF m = mask THEN handle ELSE hs[fd][m]]],
          poller |-> [pl EXCEPT ![fd] = mask \cup MaskUnion(DOMAIN hs[fd])]]
    ELSE [ok |-> TRUE,
          handles |-> [f \in (DOMAIN hs) \cup {fd} |->
                          IF f = fd THEN [m \in {mask} |-> handle] ELSE hs[f]],
          poller |-> [f \in (DOMAIN pl) \cup {fd} |-> IF f = fd THEN mask ELSE pl[f]]]

\* registerFileEvent(fd, mask, handle) -> [ok, handles, poller]
registerFileEvent(hs, pl, fd, mask, handle) ==
    IF fd \in DOMAIN hs
    THEN IF \E om \in DOMAIN hs[fd] : (om \cap mask) # {}
         THEN [ok |-> FALSE, handles |-> hs, poller |-> pl]          \* "Mask clash"
         ELSE [ok |-> TRUE,
               handles |-> [hs EXCEPT ![fd] = [m \in (DOMAIN hs[fd]) \cup {mask} |->
                                                 IF m = mask THEN handle ELSE hs[fd][m]]],
               poller |-> [pl EXCEPT ![fd] = mask \cup MaskUnion(DOMAIN hs[fd])]]
    ELSE [ok |-> TRUE,
          handles |-> [f \in (DOMAIN hs) \cup {fd} |->
                          IF f = fd THEN [m \in {mask} |-> handle] ELSE hs[f]],
          poller |-> [f \in (DOMAIN pl) \cup {fd} |-> IF f = fd THEN mask ELSE pl[f]]]

\* Mutant: the poller's mask is not recomputed when bindings remain.
unregisterFileEventStaleMask(hs, pl, fd, mask) ==
    IF fd \notin DOMAIN hs \/ mask \notin DOMAIN hs[fd]
    THEN [ok |-> FALSE, handles |-> hs, poller |-> pl]
    ELSE LET rest == (DOMAIN hs[fd]) \ {mask} IN
         IF rest = {}
         THEN [ok |-> TRUE,
               handles |-> [f \in (DOMAIN hs) \ {fd} |-> hs[f]],
               poller |-> [f \in (DOMAIN pl) \ {fd} |-> pl[f]]]
         ELSE [ok |-> TRUE,
               handles |-> [hs EXCEPT ![fd] = [m \in rest |-> hs[fd][m]]],
               poller |-> pl]

\* unregisterFileEvent(fd, mask) -> [ok, handles, poller]
unregisterFileEvent(hs, pl, fd, mask) ==
    IF fd \notin DOMAIN hs \/ mask \notin DOMAIN hs[fd]
    THEN [ok |-> FALSE, handles |-> hs, poller |-> pl]              \* "was not registered"
    ELSE LET rest == (DOMAIN hs[fd]) \ {mask} IN
         IF rest = {}
         THEN [ok |-> TRUE,
               handles |-> [f \in (DOMAIN hs) \ {fd} |-> hs[f]],
               poller |-> [f \in (DOMAIN pl) \ {fd} |-> pl[f]]]
         ELSE [ok |-> TRUE,
               handles |-> [hs EXCEPT ![fd] = [m \in rest |-> hs[fd][m]]],
               poller |-> [pl EXCEPT ![fd] = MaskUnion(rest)]]

\* What pollingObject.poll can return: an active mask for some of the
\* registered descriptors.
PollResults(pl) ==
    UNION {{ev \in [S -> SUBSET (errorCheckingMask \cup {InBit, OutBit})] :
                \A fd \in S : ev[fd] \in PollMasks(pl[fd])} : S \in SUBSET (DOMAIN pl)}

\* _scheduleEvents(events): the (fd, registered mask) pairs whose handle is
\* enqueued, and the mask each handle is called with.
effectiveMask(m, active) == (m \cup errorCheckingMask) \cap active

eventTargets(hs, ev) ==
    {p \in (DOMAIN ev) \X RegMasks :
        p[2] \in DOMAIN hs[p[1]] /\ effectiveMask(p[2], ev[p[1]]) # {}}

\* Mutant: the readiness events found by the poll are dropped.
eventEntriesDropped(hs, ev, ord, i) == <<>>

\* The entries appended for one ordering of the targets, numbered from i.
eventEntries(hs, ev, ord, i) ==
    [k \in 1..Len(ord) |->
        Entry(i + k - 1, "fd", 0, 0, hs[ord[k][1]][ord[k][2]], effectiveMask(ord[k][2], ev[ord[k][1]]), None)]

(***************************************************************************)
(* ReadWrapper (streams.py).  Byte strings are strings over "x" and the    *)
(* line feed.                                                              *)
(***************************************************************************)
LF == "\n"

Min(a, b) == IF a <= b THEN a ELSE b

Max(a, b) == IF a >= b THEN a ELSE b

RECURSIVE BytesOfLen(_)
BytesOfLen(k) ==
    IF k = 0 THEN {""} ELSE {b \o c : b \in BytesOfLen(k - 1), c \in {"x", LF}}

BytesUpTo(k) == UNION {BytesOfLen(j) : j \in 0..k}

\* Python slices b[:r] and b[r:], for r of either sign.
Cut(b, r) == IF r >= 0 THEN Min(r, Len(b)) ELSE Max(Len(b) + r, 0)

Slice(b, lo, hi) == IF lo > hi THEN "" ELSE SubSeq(b, lo, hi)

SliceTo(b, r) == Slice(b, 1, Cut(b, r))

SliceFrom(b, r) == Slice(b, Cut(b, r) + 1, Len(b))

\* b.find(LF) + 1, searching from position k
RECURSIVE FindLF(_, _)
FindLF(b, k) ==
    IF k > Len(b) THEN 0
    ELSE IF SubSeq(b, k, k) = LF THEN k ELSE FindLF(b, k + 1)

\* _smartSplit: <<>> stands for None.
smartSplit(byteObj) ==
    LET idx == FindLF(byteObj, 1)
    IN IF idx = 0 THEN <<>> ELSE <<SliceTo(byteObj, idx), SliceFrom(byteObj, idx)>>

\* b"".join(buf)
RECURSIVE Join(_)
Join(buf) == IF Len(buf) = 0 THEN "" ELSE Head(buf) \o Join(Tail(buf))

\* The descriptor of the wrapped file object.
fileNumber == CHOOSE fd \in FDs : TRUE

\* The history of a wrapper nothing was asked of.
NoReads == [reqs |-> <<>>, lens |-> <<>>, served |-> <<>>, os |-> ""]

\* The fields of a ReadWrapper; readClosing = 0 stands for None.
ReadWrapperFields(lowBuffer, highBuffer) ==
    [bufSize |-> 0, bufSizeLow |-> lowBuffer, bufSizeHigh |-> highBuffer, buf |-> <<>>,
     readWaiters |-> <<>>, readWaitingSize |-> 0, readClosing |-> 0,
     registeredReader |-> FALSE]

\* The program state a ReadWrapper method works on, with what the method
\* returns (ret), the data in hand, and the resolutions of read cells it has
\* made so far, in order.  ok is FALSE once an exception is propagating.
World(rd, cs, q, hs, pl, i) ==
    [ok |-> TRUE, reader |-> rd, cells |-> cs, hq |-> q, handles |-> hs, poller |-> pl,
     served |-> <<>>, base |-> i - Len(q), ret |-> 0, data |-> ""]

NewId(w) == w.base + Len(w.hq)

\* The world after a call on the read cell c that came out as out.
settled(w, out, c, how) ==
    [w EXCEPT !.ok = out.ok, !.cells = out.cells, !.hq = out.hq,
              !.served = IF out.ok THEN Append(@, [cell |-> c, how |-> how]) ELSE @]

\* fut.setResult(v) on a read cell
resolve(w, c, v) == settled(w, setResult(w.cells, w.hq, c, v, NewId(w)), c, "data")

\* fut.setError(e) on a read cell
fail(w, c, e) == settled(w, setError(w.cells, w.hq, c, e, NewId(w)), c, "error")

\* A new Future, returned by the method.
newFuture(w) == [w EXCEPT !.cells = Append(@, Future), !.ret = Len(w.cells) + 1]

\* Barrier.release (aux.py), for a Barrier with at most one waiter.
barrierRelease(cs, q, c, i) ==
    IF cs[c].isDone THEN Outcome(FALSE, cs, q, <<>>)
    ELSE IF cs[c].cb # None
         THEN Outcome(TRUE, [cs EXCEPT ![c].isDone = TRUE],
                      scheduleHighPriority(q, Entry(i, "send", 0, c, cs[c].cb, {}, None)), <<>>)
         ELSE Outcome(TRUE, [cs EXCEPT ![c].isDone = TRUE], q, <<>>)

\* The world after a dispatcher call that came out as r, the flag being set
\* before the call.
registeredAs(w, r, flag) ==
    [w EXCEPT !.reader.registeredReader = flag, !.ok = r.ok,
              !.handles = r.handles, !.poller = r.poller]

registerReader(w) ==
    registeredAs(w, registerFileEvent(w.handles, w.poller, fileNumber, {InBit}, "reader"), TRUE)

unregisterReader(w) ==
    registeredAs(w, unregisterFileEvent(w.handles, w.poller, fileNumber, {InBit}), FALSE)

\* The world after self.readClosing.release() came out as out.
released(w, out) == [w EXCEPT !.ok = out.ok, !.cells = out.cells, !.hq = out.hq]

\* self.readClosing.release()
releaseClosing(w) ==
    IF ~w.ok THEN w
    ELSE released(w, barrierRelease(w.cells, w.hq, w.reader.readClosing, NewId(w)))

completeRelease(w) ==
    releaseClosing(IF w.reader.registeredReader THEN unregisterReader(w) ELSE w)

\* ReadWrapper.__init__
ReadWrapper(lowBuffer, highBuffer) ==
    IF highBuffer > 0
    THEN registerReader(World(ReadWrapperFields(lowBuffer, highBuffer), <<>>, <<>>,
                              EmptyMap, EmptyMap, 1))
    ELSE World(ReadWrapperFields(lowBuffer, highBuffer), <<>>, <<>>, EmptyMap, EmptyMap, 1)

\* The while loop of read(): idx chunks taken so far, sumLength bytes in bits.
RECURSIVE readLoop(_, _, _, _, _)
readLoop(buf, idx, sumLength, bits, length) ==
    IF sumLength >= length
    THEN [ok |-> TRUE, n |-> idx, bits |-> bits, remainder |-> <<>>]
    ELSE IF idx + 1 > Len(buf)
    THEN [ok |-> FALSE, n |-> idx, bits |-> bits, remainder |-> <<>>]       \* IndexError
    ELSE IF sumLength + Len(buf[idx + 1]) > length
    THEN [ok |-> TRUE, n |-> idx + 1,
          bits |-> bits \o SliceTo(buf[idx + 1], length - sumLength),
          remainder |-> <<SliceFrom(buf[idx + 1], length - sumLength)>>]
    ELSE readLoop(buf, idx + 1, sumLength + Len(buf[idx + 1]), bits \o buf[idx + 1], length)

\* The end of the first branch of read(): the reader is registered again
\* when the buffer has fallen below the low mark.
readLowMark(w, length) ==
    IF ~w.ok THEN w
    ELSE IF ~w.reader.registeredReader /\ w.reader.bufSize - length < w.reader.bufSizeLow
    THEN registerReader([w EXCEPT !.reader.bufSize = @ - length])
    ELSE [w EXCEPT !.reader.bufSize = @ - length]

\* The first branch of read(), t being what the while loop took.
readTaken(w, t, length) ==
    IF ~t.ok THEN [w EXCEPT !.ok = FALSE]
    ELSE readLowMark(resolve([w EXCEPT !.reader.buf =
                                  t.remainder \o SubSeq(w.reader.buf, t.n + 1, Len(w.reader.buf))],
                             w.ret, t.bits),
                     length)

\* The last branch of read(): the cell joins the waiters.
readWait(w, length) ==
    IF ~w.ok THEN w
    ELSE [w EXCEPT !.reader.readWaitingSize = @ + length,
                   !.reader.readWaiters = Append(@, [cell |-> w.ret, length |-> length])]

\* Mutant: read takes from the buffer even when earlier reads are waiting.
readIgnoringWaiters(w, length) ==
    IF w.reader.readClosing # 0
    THEN fail(newFuture(w), Len(w.cells) + 1, "Read on released wrapper")
    ELSE IF w.reader.bufSize >= length
    THEN readTaken(newFuture(w), readLoop(w.reader.buf, 0, 0, "", length), length)
    ELSE readWait(IF ~w.reader.registeredReader THEN registerReader(newFuture(w))
                  ELSE newFuture(w), length)

\* ReadWrapper.read(length)
read(w, length) ==
    IF w.reader.readClosing # 0
    THEN fail(newFuture(w), Len(w.cells) + 1, "Read on released wrapper")
    ELSE IF Len(w.reader.readWaiters) = 0 /\ w.reader.bufSize >= length
    THEN readTaken(newFuture(w), readLoop(w.reader.buf, 0, 0, "", length), length)
    ELSE readWait(IF ~w.reader.registeredReader THEN registerReader(newFuture(w))
                  ELSE newFuture(w), length)

\* The tail of readline(): the cell joins the waiters, then the reader is
\* registered.
readlineWait(w) ==
    IF ~w.reader.registeredReader
    THEN registerReader([w EXCEPT !.reader.readWaiters = Append(@, [cell |-> w.ret, length |-> -1])])
    ELSE [w EXCEPT !.reader.readWaiters = Append(@, [cell |-> w.ret, length |-> -1])]

\* The first branch of readline(), on the joined buffer and its split.
readlineSplit(w, bufString, bufSplit) ==
    IF Len(bufSplit) > 0
    THEN resolve([w EXCEPT !.reader.buf = <<bufSplit[2]>>, !.reader.bufSize = Len(bufSplit[2])],
                 w.ret, bufSplit[1])
    ELSE readlineWait([w EXCEPT !.reader.buf = <<bufString>>])

readlineBuffered(w, bufString) == readlineSplit(w, bufString, smartSplit(bufString))

\* ReadWrapper.readline()
readline(w) ==
    IF w.reader.readClosing # 0
    THEN fail(newFuture(w), Len(w.cells) + 1, "InterruptedTransfer")          \* errorFuture
    ELSE IF Len(w.reader.readWaiters) = 0 /\ w.reader.bufSize > 0
    THEN IF Len(w.reader.buf) = 0 THEN [newFuture(w) EXCEPT !.ok = FALSE]     \* IndexError
         ELSE readlineBuffered(newFuture(w),
                               IF Len(w.reader.buf) > 1 THEN Join(w.reader.buf)
                               ELSE w.reader.buf[1])
    ELSE readlineWait(newFuture(w))

\* self.readClosing = Barrier()
newBarrier(w) ==
    [w EXCEPT !.cells = Append(@, Future), !.reader.readClosing = Len(w.cells) + 1]

\* The end of release(), the Barrier being made.
releaseIfIdle(w) ==
    IF Len(w.reader.readWaiters) = 0
    THEN completeRelease([w EXCEPT !.ret = w.reader.readClosing])
    ELSE [w EXCEPT !.ret = w.reader.readClosing]

\* ReadWrapper.release()
release(w) ==
    IF w.reader.readClosing # 0 THEN [w EXCEPT !.ret = w.reader.readClosing]
    ELSE releaseIfIdle(newBarrier(w))

\* The while loop of forceRelease.
RECURSIVE failWaiters(_, _)
failWaiters(w, error) ==
    IF ~w.ok \/ Len(w.reader.readWaiters) = 0 THEN w
    ELSE failWaiters(fail([w EXCEPT !.reader.readWaiters = Tail(@)],
                          Head(w.reader.readWaiters).cell, error), error)

\* ReadWrapper.forceRelease(error)
forceRelease(w, error) ==
    completeRelease(failWaiters(IF w.reader.readClosing = 0 THEN newBarrier(w) ELSE w, error))

\* One turn of the while loop of __fillWaiters on a readline waiter.
fillLine(w, dataSplit) ==
    IF Len(dataSplit) = 0 THEN [w EXCEPT !.ok = FALSE]
    ELSE resolve([w EXCEPT !.data = dataSplit[2], !.reader.readWaiters = Tail(@)],
                 Head(w.reader.readWaiters).cell, dataSplit[1])

\* One turn of the while loop of __fillWaiters: the head waiter is served
\* from w.data; ok is FALSE when the loop breaks.
fillNext(w) ==
    IF Head(w.reader.readWaiters).length = -1
    THEN fillLine(w, smartSplit(w.data))
    ELSE IF Head(w.reader.readWaiters).length <= Len(w.data)
    THEN resolve([w EXCEPT !.data = SliceFrom(@, Head(w.reader.readWaiters).length),
                           !.reader.readWaitingSize = @ - Head(w.reader.readWaiters).length,
                           !.reader.readWaiters = Tail(@)],
                 Head(w.reader.readWaiters).cell,
                 SliceTo(w.data, Head(w.reader.readWaiters).length))
    ELSE [w EXCEPT !.ok = FALSE]

\* Whether the while loop of __fillWaiters breaks on its head waiter.
fillBreaks(w) ==
    IF Head(w.reader.readWaiters).length = -1
    THEN FindLF(w.data, 1) = 0
    ELSE Head(w.reader.readWaiters).length > Len(w.data)

\* The while loop of __fillWaiters: the buffer is empty, the data in hand
\* is w.data.
RECURSIVE fillLoop(_)
fillLoop(w) ==
    IF ~w.ok \/ Len(w.reader.readWaiters) = 0 THEN w
    ELSE IF fillBreaks(w) THEN w
    ELSE fillLoop(fillNext(w))

\* The first waiter has been given the buffer and result.
fillRest(w) ==
    IF ~w.ok THEN w
    ELSE fillLoop([w EXCEPT !.reader.readWaiters = Tail(@), !.reader.buf = <<>>,
                            !.reader.bufSize = 0])

\* The first waiter of __fillWaiters is given the buffer and result.
fillHead(w, result) ==
    fillRest(resolve([w EXCEPT !.reader.buf = Append(@, result)],
                     Head(w.reader.readWaiters).cell,
                     Join(Append(w.reader.buf, result))))

\* The first waiter of __fillWaiters is a readline.
fillHeadLine(w, dataSplit) ==
    IF Len(dataSplit) = 0 THEN w
    ELSE fillHead([w EXCEPT !.data = dataSplit[2]], dataSplit[1])

\* The first waiter of __fillWaiters is a read of nextLength bytes.
fillHeadLength(w, nextLength, remnant) ==
    fillHead([w EXCEPT !.data = SliceFrom(@, remnant),
                       !.reader.readWaitingSize = @ - nextLength],
             SliceTo(w.data, remnant))

\* The body of __fillWaiters on the data w.data.
fillFirst(w) ==
    IF Len(w.reader.readWaiters) = 0 THEN w
    ELSE IF Head(w.reader.readWaiters).length = -1
    THEN fillHeadLine(w, smartSplit(w.data))
    ELSE IF Head(w.reader.readWaiters).length <= w.reader.bufSize + Len(w.data)
    THEN fillHeadLength(w, Head(w.reader.readWaiters).length,
                        Head(w.reader.readWaiters).length - w.reader.bufSize)
    ELSE w

\* ReadWrapper.__fillWaiters(data): the data left over is w.data.
fillWaiters(w, data) == fillFirst([w EXCEPT !.data = data])

\* The size __handleReadInto asks iread for.
ireadSize(rd) ==
    IF Len(rd.readWaiters) > 0 /\ Head(rd.readWaiters).length = -1
    THEN rd.bufSizeHigh
    ELSE rd.readWaitingSize + rd.bufSizeHigh - rd.bufSize

\* What iread(size) returns on the non-blocking file: at most size bytes
\* (b"" at end of file), any number of bytes for a negative size.
iread(size) == IF size < 0 THEN BytesUpTo(MaxData) ELSE BytesUpTo(Min(size, MaxData))

\* Mutant: a full buffer does not unregister the reader.
afterReadKeepsReading(w, checkHigh) ==
    IF ~w.ok THEN w
    ELSE IF w.reader.registeredReader /\ Len(w.reader.readWaiters) = 0
    THEN IF w.reader.readClosing # 0 THEN completeRelease(w)
         ELSE IF ~checkHigh THEN unregisterReader(w) ELSE w
    ELSE w

\* The block run after the try statement (checkHigh), and at the end of its
\* except clause (not checkHigh).
afterRead(w, checkHigh) ==
    IF ~w.ok THEN w
    ELSE IF w.reader.registeredReader /\ Len(w.reader.readWaiters) = 0
    THEN IF w.reader.readClosing # 0 THEN completeRelease(w)
         ELSE IF ~checkHigh \/ w.reader.bufSize >= w.reader.bufSizeHigh
         THEN unregisterReader(w) ELSE w
    ELSE w

\* Mutant: the except clause fails the head waiter and leaves the
\* registration and the Barrier alone.
readFailedStaysRegistered(w, e) ==
    IF Len(w.reader.readWaiters) > 0
    THEN fail([w EXCEPT !.ok = TRUE, !.reader.readWaiters = Tail(@)],
              Head(w.reader.readWaiters).cell, e)
    ELSE [w EXCEPT !.ok = TRUE]

\* The except clause of __handleReadInto, handling the exception e.
readFailed(w, e) ==
    afterRead(IF Len(w.reader.readWaiters) > 0
              THEN fail([w EXCEPT !.ok = TRUE, !.reader.readWaiters = Tail(@)],
                        Head(w.reader.readWaiters).cell, e)
              ELSE [w EXCEPT !.ok = TRUE],
              FALSE)

\* The end of the try block of __handleReadInto, the waiters being filled.
readFilled(w) ==
    IF ~w.ok THEN readFailed(w, "AssertionError")
    ELSE afterRead([w EXCEPT !.reader.buf = Append(@, w.data),
                             !.reader.bufSize = @ + Len(w.data)], TRUE)

\* ReadWrapper.__handleReadInto(mask), iread returning data.
handleReadInto(w, mask, data) ==
    IF mask \cap errorCheckingMask # {}
    THEN readFailed(w, IF ErrBit \in mask THEN "Error on file object" ELSE "Stream closed")
    ELSE readFilled(fillWaiters(w, data))

\* The dispatcher state after the call of the reader's handle came out as w.
ReaderCalled(w, e, rest, i, info, data) ==
    /\ handleQueue' = w.hq
    /\ cells' = w.cells
    /\ handles' = w.handles /\ poller' = w.poller
    /\ reader' = w.reader
    /\ rlog' = [rlog EXCEPT !.served = @ \o w.served, !.os = @ \o data]
    /\ invoked' = Append(invoked, e)
    /\ nextId' = i + (Len(w.hq) - Len(rest))
    /\ lastStep' = [info EXCEPT !.ok = w.ok, !.ran = e.id, !.ranKind = e.kind]
    /\ UNCHANGED <<delivered, writer, wlog, ws, wslog, clog, barrier, blog, recurring, reclog, evfut, evq, elog, sock, slog, greens, awlog, task>>

(***************************************************************************)
(* WriteWrapper (streams.py).                                              *)
(***************************************************************************)
\* The fields of a WriteWrapper; writeClosing = 0 stands for None.
WriteWrapper == [writeWaiters |-> <<>>, writeWaitingSize |-> 0, writeClosing |-> 0]

\* The history of a wrapper nothing was written to.
NoWrites == [bufs |-> <<>>, cells |-> <<>>, done |-> <<>>, wire |-> ""]

\* What the file does during one callback: fileObject.write accepts cap
\* bytes in all; the call that finds less room than its buffer is partial
\* (end = "partial") or raises (end = "raise"); flush succeeds or raises.
WritePlans == [cap : 0..(2 * MaxWrite), end : {"partial", "raise"}, flush : {"done", "raise"}]

NoPlan == [cap |-> 0, end |-> "partial", flush |-> "done"]

\* The program state a WriteWrapper method works on, with what the method
\* returns (ret), the exception caught in the try block (exc), doneIndex,
\* the room left in the file, the bytes the file accepted (wire), the
\* settlements of write cells made so far, and the cb.send calls made.
WriterWorld(wr, cs, q, hs, pl, i, plan) ==
    [ok |-> TRUE, writer |-> wr, cells |-> cs, hq |-> q, handles |-> hs, poller |-> pl,
     served |-> <<>>, base |-> i - Len(q), ret |-> 0, exc |-> None, doneIndex |-> 0,
     cap |-> plan.cap, end |-> plan.end, flush |-> plan.flush, wire |-> "", calls |-> <<>>]

\* Barrier.releaseFast (aux.py), for a Barrier with at most one waiter.
barrierReleaseFast(cs, q, c) ==
    IF cs[c].isDone THEN Outcome(FALSE, cs, q, <<>>)
    ELSE Outcome(TRUE, [cs EXCEPT ![c].isDone = TRUE], q,
                 IF cs[c].cb # None
                 THEN <<[cell |-> c, h |-> cs[c].cb, how |-> "send", val |-> None]>>
                 ELSE <<>>)

\* The world after a dispatcher call that came out as r.
writerRegistered(w, r) ==
    [w EXCEPT !.ok = r.ok, !.handles = r.handles, !.poller = r.poller]

registerWriter(w) ==
    writerRegistered(w, registerFileEvent(w.handles, w.poller, fileNumber, {OutBit}, "writer"))

unregisterWriter(w) ==
    writerRegistered(w, unregisterFileEvent(w.handles, w.poller, fileNumber, {OutBit}))

\* The world after a call on a Barrier that came out as out.
writerReleased(w, out) ==
    [w EXCEPT !.ok = out.ok, !.cells = out.cells, !.hq = out.hq, !.calls = @ \o out.calls]

\* self.writeClosing.release()
releaseWriteClosing(w) ==
    IF ~w.ok THEN w
    ELSE writerReleased(w, barrierRelease(w.cells, w.hq, w.writer.writeClosing, NewId(w)))

\* self.writeClosing.releaseFast()
releaseFastWriteClosing(w) ==
    IF ~w.ok THEN w
    ELSE writerReleased(w, barrierReleaseFast(w.cells, w.hq, w.writer.writeClosing))

\* The last branch of write(): the buffer joins the waiters.
writeWait(w, buf) ==
    IF ~w.ok THEN w
    ELSE [w EXCEPT !.writer.writeWaitingSize = @ + Len(buf),
                   !.writer.writeWaiters = Append(@, [cell |-> w.ret, data |-> buf,
                                                      total |-> Len(buf)])]

\* WriteWrapper.write(buf); a result that is a number is kept as its decimal
\* string.
write(w, buf) ==
    IF w.writer.writeClosing # 0
    THEN fail(newFuture(w), Len(w.cells) + 1, "InterruptedTransfer")
    ELSE IF Len(buf) = 0
    THEN resolve(newFuture(w), Len(w.cells) + 1, ToString(0))
    ELSE writeWait(IF w.writer.writeWaitingSize = 0 /\ Len(buf) > 0
                   THEN registerWriter(newFuture(w)) ELSE newFuture(w), buf)

\* self.writeClosing = Barrier()
newWriteBarrier(w) ==
    [w EXCEPT !.cells = Append(@, Future), !.writer.writeClosing = Len(w.cells) + 1]

\* The end of WriteWrapper.release(), the Barrier being made.
writeReleaseIfIdle(w) ==
    IF Len(w.writer.writeWaiters) = 0
    THEN releaseWriteClosing([w EXCEPT !.ret = w.writer.writeClosing])
    ELSE [w EXCEPT !.ret = w.writer.writeClosing]

\* WriteWrapper.release()
writeRelease(w) ==
    IF w.writer.writeClosing # 0 THEN [w EXCEPT !.ret = w.writer.writeClosing]
    ELSE writeReleaseIfIdle(newWriteBarrier(w))

\* The while loop of WriteWrapper.forceRelease.
RECURSIVE failWriters(_, _)
failWriters(w, error) ==
    IF ~w.ok \/ Len(w.writer.writeWaiters) = 0 THEN w
    ELSE failWriters(fail([w EXCEPT !.writer.writeWaiters = Tail(@)],
                          Head(w.writer.writeWaiters).cell, error), error)

\* The middle of WriteWrapper.forceRelease.
writeInterrupt(w, error) ==
    IF Len(w.writer.writeWaiters) > 0
    THEN failWriters(unregisterWriter([w EXCEPT !.writer.writeWaitingSize = 0]), error)
    ELSE w

\* WriteWrapper.forceRelease(error)
writeForceRelease(w, error) ==
    releaseWriteClosing(writeInterrupt(IF w.writer.writeClosing = 0 THEN newWriteBarrier(w)
                                       ELSE w, error))

\* Mutant: a partial write counts as a complete one.
writeOnePartialDone(w, writeBytes) ==
    IF w.cap >= Len(writeBytes)
    THEN [w EXCEPT !.wire = @ \o writeBytes,
                   !.writer.writeWaitingSize = @ - Len(writeBytes),
                   !.doneIndex = @ + 1, !.cap = @ - Len(writeBytes)]
    ELSE IF w.end = "raise" THEN [w EXCEPT !.exc = "OSError"]
    ELSE [w EXCEPT !.wire = @ \o SliceTo(writeBytes, w.cap),
                   !.writer.writeWaitingSize = @ - w.cap,
                   !.doneIndex = @ + 1, !.cap = -1]

\* One turn of the first while loop of __handleWriteFrom, on the bytes
\* writeBytes of the waiter at doneIndex; exc is set when the loop is left
\* by an exception, cap is -1 when it is left by break.
writeOne(w, writeBytes) ==
    IF w.cap >= Len(writeBytes)
    THEN [w EXCEPT !.wire = @ \o writeBytes,
                   !.writer.writeWaitingSize = @ - Len(writeBytes),
                   !.doneIndex = @ + 1, !.cap = @ - Len(writeBytes)]
    ELSE IF w.end = "raise" THEN [w EXCEPT !.exc = "OSError"]
    ELSE [w EXCEPT !.wire = @ \o SliceTo(writeBytes, w.cap),
                   !.writer.writeWaitingSize = @ - w.cap,
                   !.writer.writeWaiters[w.doneIndex + 1].data = SliceFrom(writeBytes, w.cap),
                   !.cap = -1]

\* The first while loop of __handleWriteFrom.
RECURSIVE writeLoop(_)
writeLoop(w) ==
    IF w.exc # None \/ w.cap < 0 \/ w.writer.writeWaitingSize <= 0 THEN w
    ELSE IF w.doneIndex + 1 > Len(w.writer.writeWaiters)
    THEN [w EXCEPT !.exc = "IndexError"]
    ELSE writeLoop(writeOne(w, w.writer.writeWaiters[w.doneIndex + 1].data))

\* The while loop of the except clause of __handleWriteFrom.
RECURSIVE failDone(_, _)
failDone(w, e) ==
    IF ~w.ok \/ w.doneIndex < 0 THEN w
    ELSE IF Len(w.writer.writeWaiters) = 0 THEN [w EXCEPT !.ok = FALSE]       \* IndexError
    ELSE failDone(fail([w EXCEPT !.writer.writeWaiters = Tail(@), !.doneIndex = @ - 1],
                       Head(w.writer.writeWaiters).cell, e), e)

\* writeFailed failing the waiter at the head of the queue and no other.
writeFailedHeadOnly(w, e) ==
    IF Len(w.writer.writeWaiters) > 0
    THEN fail([w EXCEPT !.writer.writeWaitingSize = @ - Len(Head(w.writer.writeWaiters).data),
                        !.writer.writeWaiters = Tail(@), !.doneIndex = -1],
              Head(w.writer.writeWaiters).cell, e)
    ELSE w

\* The except clause of __handleWriteFrom, handling the exception e.
writeFailed(w, e) ==
    IF Len(w.writer.writeWaiters) > 0
    THEN failDone([w EXCEPT !.writer.writeWaitingSize =
                                @ - Len(Head(w.writer.writeWaiters).data)], e)
    ELSE w

\* The second while loop of __handleWriteFrom.
RECURSIVE writeDone(_)
writeDone(w) ==
    IF ~w.ok \/ w.doneIndex <= 0 THEN w
    ELSE writeDone(resolve([w EXCEPT !.writer.writeWaiters = Tail(@), !.doneIndex = @ - 1],
                           Head(w.writer.writeWaiters).cell,
                           ToString(Head(w.writer.writeWaiters).total)))

\* The try block of __handleWriteFrom after its first loop: flush, then the
\* second loop, or the except clause.
writeFlushed(w) ==
    IF w.exc # None THEN writeFailed(w, w.exc)
    ELSE IF w.flush = "raise" THEN writeFailed(w, "OSError")
    ELSE writeDone(w)

\* The end of __handleWriteFrom.
writeFinish(w, oldWriteWaitingSize) ==
    IF ~w.ok THEN w
    ELSE IF w.writer.writeWaitingSize = 0 /\ oldWriteWaitingSize > 0
    THEN IF w.writer.writeClosing # 0
         THEN releaseFastWriteClosing(unregisterWriter(w))
         ELSE unregisterWriter(w)
    ELSE w

\* WriteWrapper.__handleWriteFrom(mask), the file behaving as the plan of w.
handleWriteFrom(w, mask) ==
    IF mask \cap errorCheckingMask # {}
    THEN writeFinish(writeFailed(w, IF ErrBit \in mask THEN "Error on file object"
                                    ELSE "Stream closed"),
                     w.writer.writeWaitingSize)
    ELSE writeFinish(writeFlushed(writeLoop(w)), w.writer.writeWaitingSize)

\* The dispatcher state after the call of the writer's handle came out as w.
WriterCalled(w, e, rest, i, info) ==
    /\ handleQueue' = w.hq
    /\ cells' = w.cells
    /\ handles' = w.handles /\ poller' = w.poller
    /\ writer' = w.writer
    /\ wlog' = [wlog EXCEPT !.done = @ \o w.served, !.wire = @ \o w.wire]
    /\ invoked' = Append(invoked, e)
    /\ delivered' = delivered \o w.calls
    /\ nextId' = i + (Len(w.hq) - Len(rest))
    /\ lastStep' = [info EXCEPT !.ok = w.ok, !.ran = e.id, !.ranKind = e.kind, !.h = e.h]
    /\ UNCHANGED <<reader, rlog, ws, wslog, clog, barrier, blog, recurring, reclog, evfut, evq, elog, sock, slog, greens, awlog, task>>

(***************************************************************************)
(* Websocket (websockets/websocket.py, websockets/framing.py) over a       *)
(* stream socket (usocket.py).  A coroutine is a record with the place it  *)
(* is suspended at; running it goes on to its next suspension or its end.  *)
(***************************************************************************)
\* doneFuture (aux.py) is the first Future of the program, already completed
\* with None.
doneFuture == 1

DoneCell == [Future EXCEPT !.isDone = TRUE, !.result = None]

STATE_OPEN == "open"
STATE_CLOSING == "closing"
STATE_CLOSED == "closed"
STATE_ERROR == "error"

CLOSE_BY_ERROR == "by_error"
CLOSE_BY_LOCAL == "by_local"
CLOSE_BY_REMOTE == "by_remote"
CLOSE_BY_LOCAL_TIMEOUT == "by_local_timeout"

BUILD_NOTHING == "nothing"
BUILD_TEXT == "text"
BUILD_BINARY == "binary"

OP_CONT == "cont"
OP_TEXT == "text"
OP_BINARY == "binary"
OP_CLOSE == "close"

\* The states of the stream socket (usocket.py).
SOCKET_CONNECTED == "connected"
SOCKET_CLOSING == "closing"
SOCKET_CLOSED == "closed"

\* The close codes parseCloseData accepts, as decimal strings.
CLOSE_CODES == {"1000", "1001", "1002", "1003", "1007", "1008", "1009", "1010", "1011"}

\* A (code, reason) pair; NoReason stands for None in closingData.
Reason(code, reason) == [code |-> code, reason |-> reason]

NoReason == Reason(None, None)

ClosingData(closeBy, local, remote) == [by |-> closeBy, local |-> local, remote |-> remote]

\* struct.pack("!H", reason[0]) + reason[1].encode(): the code, here four
\* decimal digits, then the bytes of the reason.
packClose(reason) == reason.code \o reason.reason

\* parseCloseData (framing.py): ok is FALSE when it raises
\* WebSocketProtocolError.
parseCloseData(data) ==
    IF Len(data) = 0 THEN [ok |-> TRUE, reason |-> Reason("1005", "")]
    ELSE IF Len(data) < 4 THEN [ok |-> FALSE, reason |-> NoReason]
    ELSE IF SubSeq(data, 1, 4) \notin CLOSE_CODES THEN [ok |-> FALSE, reason |-> NoReason]
    ELSE [ok |-> TRUE, reason |-> Reason(SubSeq(data, 1, 4), SubSeq(data, 5, Len(data)))]

\* A frame as writeFragment writes it and readFragment returns it.
Frame(opcode, final, data) == [opcode |-> opcode, final |-> final, data |-> data]

\* A str or a bytes object.
Str(s) == [type |-> "str", data |-> s]

Bytes(s) == [type |-> "bytes", data |-> s]

\* The Python slice data[lo:hi], 0 <= lo.
PySlice(data, lo, hi) == Slice(data, lo + 1, Min(hi, Len(data)))

\* The while loop and the last writeFragment of __writeDataFrame.
RECURSIVE writeContinuations(_, _, _)
writeContinuations(data, endFrag, size) ==
    IF Len(data) > endFrag + size
    THEN <<Frame(OP_CONT, FALSE, PySlice(data, endFrag + size, endFrag + size))>>
         \o writeContinuations(data, endFrag + size, size)
    ELSE <<Frame(OP_CONT, TRUE, PySlice(data, endFrag, Len(data)))>>

\* The frames __writeDataFrame(data) writes, in order.
writeDataFrame(data, opcode, size) ==
    IF Len(data) > size
    THEN <<Frame(opcode, FALSE, PySlice(data, 0, size))>> \o writeContinuations(data, size, size)
    ELSE <<Frame(opcode, TRUE, data)>>

\* Mutant: the whole payload goes into one frame.
writeDataFrameWhole(data, opcode, size) == <<Frame(opcode, TRUE, data)>>

dataOpcode(data) == IF data.type = "str" THEN OP_TEXT ELSE OP_BINARY

\* XQueue(length) and its sumSize.
XQueue(length) == [values |-> <<>>, getwaiters |-> <<>>, putwaiters |-> <<>>, length |-> length]

sumSize(q) == Len(q.values) + Len(q.putwaiters) - Len(q.getwaiters)

\* A coroutine wrapped in a _Task whose Future is cell.
Task(kind, cell, data) ==
    [kind |-> kind, pc |-> "new", cell |-> cell, data |-> data, k |-> 0, myWait |-> 0,
     hold |-> NoReason]

NoTasks == [t \in {} |-> Task("none", 0, Bytes(""))]

\* The stream socket: its state, the Futures of the sends not yet written
\* out, the Future of the recv in progress, the task waiting in close().
Socket == [state |-> SOCKET_CONNECTED, pendingWrites |-> <<>>, readWaiter |-> 0, closer |-> None]

\* Websocket.__init__, mainLoopThread being the Future cell main.
Websocket(main, length, size) ==
    [state |-> STATE_OPEN, closingData |-> ClosingData(CLOSE_BY_ERROR, NoReason, NoReason),
     curWait |-> doneFuture, mainLoopThread |-> main, maxSize |-> size,
     buildWhat |-> BUILD_NOTHING, buildBits |-> <<>>,
     dataFrameQueue |-> XQueue(length), socket |-> Socket,
     arrived |-> Frame(OP_CONT, FALSE, ""),
     tasks |-> [t \in {"main"} |-> Task("main", main, Bytes(""))]]

\* No Websocket was made.
NoWebsocket == [Websocket(0, 0, 0) EXCEPT !.state = STATE_CLOSED, !.tasks = NoTasks,
                                          !.socket.state = SOCKET_CLOSED]

\* The history of an engine: the send tasks in the order of the calls and
\* in the order they began to run, the frames handed to the socket with the
\* task that wrote each, the frames the main loop handled with the builder
\* and the state it found, and the messages passed to dataFrameQueue.
NoFrames == [called |-> <<>>, started |-> <<>>, wire |-> <<>>, handled |-> <<>>, put |-> <<>>,
             closers |-> <<>>]

\* The program state a coroutine of the engine runs on.
WsWorld(s, log, cs, q, i) ==
    [ws |-> s, log |-> log, cells |-> cs, hq |-> q, base |-> i - Len(q), calls |-> <<>>]

\* The world after a call on a Future that came out as out.
wsApply(w, out) == [w EXCEPT !.cells = out.cells, !.hq = out.hq, !.calls = @ \o out.calls]

\* _Task.send / _Task.throw: the coroutine t yielded the pending Future c.
wsAwait(w, t, c, pc) ==
    [w EXCEPT !.cells = setCallback(@, c, t), !.ws.tasks[t].pc = pc]

RECURSIVE wsResume(_, _, _, _)
RECURSIVE mainLoop(_, _)

\* The task waiting on the Future c, if a task of the engine does.
waiterOf(w, c) == IF w.cells[c].cb \in DOMAIN w.ws.tasks THEN w.cells[c].cb ELSE None

\* cb.send(v) or cb.throw(e) called at once by setResultFast, setErrorFast
\* or releaseFast, for the waiter cb.
wsCallNow(w, cb, how, v) == IF cb = None THEN w ELSE wsResume(w, cb, how, v)

\* The coroutine of t returned v: _Task.send calls setResultFast.
wsReturn(w, t, v) ==
    wsCallNow(wsApply([w EXCEPT !.ws.tasks[t].pc = "done"],
                      setResultFast(w.cells, w.hq, w.ws.tasks[t].cell, v, NewId(w))),
              waiterOf(w, w.ws.tasks[t].cell), "send", v)

\* The coroutine of t raised e: _Task.send calls setErrorFast.
wsRaise(w, t, e) ==
    wsCallNow(wsApply([w EXCEPT !.ws.tasks[t].pc = "failed"],
                      setErrorFast(w.cells, w.hq, w.ws.tasks[t].cell, e, NewId(w))),
              waiterOf(w, w.ws.tasks[t].cell), "throw", e)

\* socket.send(buf) on a connected socket, yielded by t: writer.write(buf)
\* queues the bytes and returns a pending Future.
socketSend(w, t, frame, pc) ==
    [w EXCEPT !.cells = Append(@, [Future EXCEPT !.cb = t]),
              !.ws.socket.pendingWrites = Append(@, Len(w.cells) + 1),
              !.log.wire = Append(@, [by |-> t, frame |-> frame]),
              !.ws.tasks[t].pc = pc]

\* socket.recv on a connected socket, yielded by t: the reads of
\* readFragment, taken together.
socketRecv(w, t, pc) ==
    [w EXCEPT !.cells = Append(@, [Future EXCEPT !.cb = t]),
              !.ws.socket.readWaiter = Len(w.cells) + 1,
              !.ws.tasks[t].pc = pc]

\* reader.forceRelease(error) in __rudeCloser
failReader(w, error) ==
    IF w.ws.socket.readWaiter = 0 THEN w
    ELSE wsApply([w EXCEPT !.ws.socket.readWaiter = 0],
                 setError(w.cells, w.hq, w.ws.socket.readWaiter, error, NewId(w)))

\* writer.forceRelease(error) in __rudeCloser
RECURSIVE failSenders(_, _)
failSenders(w, error) ==
    IF w.ws.socket.pendingWrites = <<>> THEN w
    ELSE failSenders(wsApply([w EXCEPT !.ws.socket.pendingWrites = Tail(@)],
                             setError(w.cells, w.hq, Head(w.ws.socket.pendingWrites), error,
                                      NewId(w))), error)

\* _USocketStream.forceClose
socketForceClose(w) ==
    IF w.ws.socket.state = SOCKET_CONNECTED
    THEN failSenders(failReader([w EXCEPT !.ws.socket.state = SOCKET_CLOSED],
                                "InterruptedTransfer"), "InterruptedTransfer")
    ELSE w

\* _USocketStream.close returns a Future that is done: the socket is not
\* connected, or nothing is waiting to be written.
socketCloseDone(w) ==
    w.ws.socket.state # SOCKET_CONNECTED \/ w.ws.socket.pendingWrites = <<>>

\* _USocketStream.close, to its end.
socketClosed(w) ==
    IF w.ws.socket.state = SOCKET_CONNECTED
    THEN [w EXCEPT !.ws.socket.state = SOCKET_CLOSED] ELSE w

\* _USocketStream.close, waiting in __closer for the writer's release; t
\* yielded it.
socketClosing(w, t, pc) ==
    [w EXCEPT !.ws.socket.state = SOCKET_CLOSING, !.ws.socket.closer = t,
              !.ws.tasks[t].pc = pc]

\* XQueue.get
xGetWaits(w) ==
    [w EXCEPT !.cells = Append(@, Future),
              !.ws.dataFrameQueue.getwaiters = Append(@, Len(w.cells) + 1)]

xGetValue(w) ==
    [w EXCEPT !.cells = Append(@, [Future EXCEPT !.isDone = TRUE,
                                                 !.result = Head(w.ws.dataFrameQueue.values)]),
              !.ws.dataFrameQueue.values = Tail(@)]

\* The Future get() returns when a producer is waiting, with its result.
xGot(w, length) ==
    [Future EXCEPT !.isDone = TRUE,
                   !.result = IF length > 0 THEN Head(w.ws.dataFrameQueue.values)
                              ELSE Head(w.ws.dataFrameQueue.putwaiters).value]

xGetFromWaiter(w, length) ==
    wsApply([w EXCEPT !.ws.dataFrameQueue.putwaiters = Tail(@),
                      !.ws.dataFrameQueue.values =
                          IF length > 0
                          THEN Append(Tail(@), Head(w.ws.dataFrameQueue.putwaiters).value)
                          ELSE @],
            setResult(Append(w.cells, xGot(w, length)), w.hq,
                      Head(w.ws.dataFrameQueue.putwaiters).cell, None, NewId(w)))

xGet(w) ==
    IF Len(w.ws.dataFrameQueue.putwaiters) > 0 THEN xGetFromWaiter(w, w.ws.dataFrameQueue.length)
    ELSE IF Len(w.ws.dataFrameQueue.values) > 0 THEN xGetValue(w)
    ELSE xGetWaits(w)

\* The while loop of __closeTimeout.
RECURSIVE drainQueue(_)
drainQueue(w) == IF sumSize(w.ws.dataFrameQueue) > 0 THEN drainQueue(xGet(w)) ELSE w

\* Websocket.__closeTimeout
closeTimeout(w) ==
    IF w.ws.state # STATE_CLOSED
    THEN drainQueue(socketForceClose([w EXCEPT !.ws.closingData.by = CLOSE_BY_LOCAL_TIMEOUT,
                                               !.ws.state = STATE_CLOSED]))
    ELSE w

\* Websocket.send after "yield from waitOn": __writeDataFrame from its k-th
\* writeFragment on, then myWait.setResult(None).
sendFragment(w, t, k, frames) ==
    IF k > Len(frames)
    THEN wsReturn(wsApply(w, setResult(w.cells, w.hq, w.ws.tasks[t].myWait, None, NewId(w))),
                  t, None)
    ELSE IF w.ws.socket.state # SOCKET_CONNECTED THEN wsRaise(w, t, "BrokenPipeError")
    ELSE socketSend([w EXCEPT !.ws.tasks[t].k = k], t, frames[k], "writing")

sendFrames(w, t) ==
    writeDataFrame(w.ws.tasks[t].data.data, dataOpcode(w.ws.tasks[t].data), w.ws.maxSize)

\* The first lines of Websocket.send on an open engine, waitOn being the
\* curWait it found.
sendChained(w, t, waitOn) ==
    IF w.cells[waitOn].isDone THEN sendFragment(w, t, 1, sendFrames(w, t))
    ELSE wsAwait(w, t, waitOn, "chained")

\* Mutant: send does not wait for the send before it.
sendUnchained(w, t) ==
    IF w.ws.state = STATE_OPEN
    THEN sendFragment([w EXCEPT !.cells = Append(@, Future),
                                !.ws.curWait = Len(w.cells) + 1,
                                !.ws.tasks[t].myWait = Len(w.cells) + 1,
                                !.log.started = Append(@, t)], t, 1, sendFrames(w, t))
    ELSE wsRaise(w, t, "WebsocketClosed")

\* Websocket.send(data), from its first line.
send(w, t) ==
    IF w.ws.state = STATE_OPEN
    THEN sendChained([w EXCEPT !.cells = Append(@, Future),
                               !.ws.curWait = Len(w.cells) + 1,
                               !.ws.tasks[t].myWait = Len(w.cells) + 1,
                               !.log.started = Append(@, t)], t, w.ws.curWait)
    ELSE wsRaise(w, t, "WebsocketClosed")

\* The end of Websocket.close: yield from self.mainLoopThread, then return
\* self.closingData.
closeJoin(w, t) ==
    IF ~w.cells[w.ws.mainLoopThread].isDone THEN wsAwait(w, t, w.ws.mainLoopThread, "joining")
    ELSE IF w.cells[w.ws.mainLoopThread].error # None
    THEN wsRaise([w EXCEPT !.cells[w.ws.mainLoopThread].errorAccessed = "True"], t,
                 w.cells[w.ws.mainLoopThread].error)
    ELSE wsReturn(w, t, w.ws.closingData)

\* What follows __sendClose: the rest of close(), or the next turn of the
\* main loop after __failConnection.
afterSendClose(w, t) ==
    IF w.ws.tasks[t].kind = "close" THEN closeJoin(w, t) ELSE mainLoop(w, t)

\* Websocket.__sendClose(timeout, reason, closeBy), up to the write of the
\* close frame.
sendClose(w, t, reason, closeBy) ==
    IF w.ws.socket.state # SOCKET_CONNECTED
    THEN afterSendClose(closeTimeout([w EXCEPT !.ws.closingData =
                                                   ClosingData(closeBy, NoReason, reason),
                                               !.ws.state = STATE_ERROR]), t)
    ELSE socketSend([w EXCEPT !.ws.closingData = ClosingData(closeBy, NoReason, reason)],
                    t, Frame(OP_CLOSE, TRUE, packClose(reason)), "sendClose")

\* Websocket.__sendClose resumed after the write: scheduleHandle is not a
\* method of the Dispatcher, the call raises AttributeError, which the
\* except clause does not catch; an InterruptedTransfer thrown into the
\* write is caught.
sendCloseWritten(w, t, how) ==
    IF how = "send" THEN wsRaise(w, t, "AttributeError")
    ELSE afterSendClose(closeTimeout([w EXCEPT !.ws.state = STATE_ERROR]), t)

\* Websocket.close(timeout, reason)
close(w, t) ==
    IF w.ws.state = STATE_OPEN
    THEN sendClose([w EXCEPT !.ws.state = STATE_CLOSING], t, w.ws.tasks[t].hold, CLOSE_BY_LOCAL)
    ELSE closeJoin(w, t)

\* Websocket.__failConnection(code), called in an except clause of the main
\* loop.
failConnection(w, t, code) ==
    IF w.ws.state = STATE_OPEN
    THEN sendClose([w EXCEPT !.ws.state = STATE_ERROR], t, Reason(code, ""), CLOSE_BY_ERROR)
    ELSE mainLoop(w, t)

\* The last loop of __mainLoop, and its return.
RECURSIVE mainFinish(_, _)
mainFinish(w, t) ==
    IF sumSize(w.ws.dataFrameQueue) < 0
    THEN mainFinish(wsApply([w EXCEPT !.ws.dataFrameQueue.getwaiters = Tail(@)],
                            setError(w.cells, w.hq, Head(w.ws.dataFrameQueue.getwaiters),
                                     "WebsocketClosed", NewId(w))), t)
    ELSE wsReturn(w, t, None)

\* __mainLoop after its while loop.
mainExit(w, t) ==
    IF w.ws.state = STATE_CLOSED THEN mainFinish(w, t)
    ELSE IF socketCloseDone(w)
    THEN mainFinish(socketClosed([w EXCEPT !.ws.state = STATE_CLOSED]), t)
    ELSE socketClosing([w EXCEPT !.ws.state = STATE_CLOSED], t, "finalClose")

\* The except clause for InterruptedTransfer and BrokenPipeError.
mainBroken(w, t) == mainExit(socketForceClose(w), t)

\* self.dataFrameQueue.putResult(value), yielded by the main loop.
putResult(w, t, value) ==
    IF Len(w.ws.dataFrameQueue.getwaiters) > 0
    THEN mainLoop(wsApply([w EXCEPT !.ws.dataFrameQueue.getwaiters = Tail(@),
                                    !.log.put = Append(@, value)],
                          setResult(w.cells, w.hq, Head(w.ws.dataFrameQueue.getwaiters), value,
                                    NewId(w))), t)
    ELSE IF w.ws.dataFrameQueue.length > Len(w.ws.dataFrameQueue.values)
    THEN mainLoop([w EXCEPT !.ws.dataFrameQueue.values = Append(@, value),
                            !.log.put = Append(@, value)], t)
    ELSE wsAwait([w EXCEPT !.cells = Append(@, Future),
                           !.ws.dataFrameQueue.putwaiters =
                               Append(@, [cell |-> Len(w.cells) + 1, value |-> value]),
                           !.log.put = Append(@, value)],
                 t, Len(w.cells) + 1, "putResult")

\* __readNextFrame for a close frame whose data parsed as closeData.
readClose(w, t, data, closeData) ==
    IF ~closeData.ok THEN failConnection(w, t, "1002")
    ELSE IF w.ws.state = STATE_OPEN
    THEN IF w.ws.socket.state # SOCKET_CONNECTED THEN mainBroken(w, t)
         ELSE socketSend([w EXCEPT !.ws.tasks[t].hold = closeData.reason], t,
                         Frame(OP_CLOSE, TRUE, data), "replyClose")
    ELSE mainExit([w EXCEPT !.ws.closingData.local = closeData.reason], t)

\* Mutant: the answer to the peer's close is recorded as a local close.
closeRepliedAsLocal(w, t) ==
    mainExit([w EXCEPT !.ws.closingData =
                           ClosingData(CLOSE_BY_LOCAL, NoReason, w.ws.tasks[t].hold)], t)

\* __readNextFrame after the write of the answering close frame.
closeReplied(w, t) ==
    mainExit([w EXCEPT !.ws.closingData =
                           ClosingData(CLOSE_BY_REMOTE, NoReason, w.ws.tasks[t].hold)], t)

\* __readNextFrame and the branches of __mainLoop for a data frame f.
\* "self.buildBits.append(recvBits)" raises AttributeError (the list is the
\* local buildBits), which the last except clause takes.
readData(w, t, f) ==
    IF w.ws.buildWhat = BUILD_NOTHING
    THEN IF f.opcode = OP_CONT THEN failConnection(w, t, "1002")
         ELSE IF f.final
         THEN putResult(w, t, IF f.opcode = OP_TEXT THEN Str(f.data) ELSE Bytes(f.data))
         ELSE mainLoop([w EXCEPT !.ws.buildWhat = IF f.opcode = OP_TEXT THEN BUILD_TEXT
                                                  ELSE BUILD_BINARY,
                                 !.ws.buildBits = Append(@, f.data)], t)
    ELSE IF f.opcode = OP_CONT THEN failConnection(w, t, "1011")
    ELSE failConnection(w, t, "1002")

\* One turn of the loop of __mainLoop on the frame readFragment returned.
readNextFrame(w, t, f) ==
    IF f.opcode = OP_CLOSE THEN readClose(w, t, f.data, parseCloseData(f.data))
    ELSE readData(w, t, f)

\* The frame the main loop is given, recorded with what it found.
frameRead(w, t) ==
    readNextFrame([w EXCEPT !.log.handled =
                                Append(@, [frame |-> w.ws.arrived, state |-> w.ws.state,
                                           building |-> w.ws.buildWhat,
                                           bits |-> w.ws.buildBits,
                                           put |-> Len(w.log.put)])],
                  t, w.ws.arrived)

\* The while loop of __mainLoop, from its test.
mainLoop(w, t) ==
    IF w.ws.state = STATE_CLOSED THEN mainExit(w, t)
    ELSE IF w.ws.socket.state # SOCKET_CONNECTED THEN mainBroken(w, t)
    ELSE socketRecv(w, t, "readFragment")

\* _Task.send(v) (how = "send") or _Task.throw(v) on the task t: the
\* coroutine goes on from where it is suspended.
wsResume(w, t, how, v) ==
    CASE w.ws.tasks[t].pc = "new" ->
            IF w.ws.tasks[t].kind = "send" THEN send(w, t)
            ELSE IF w.ws.tasks[t].kind = "close" THEN close(w, t)
            ELSE mainLoop(w, t)
      [] w.ws.tasks[t].pc = "chained" -> sendFragment(w, t, 1, sendFrames(w, t))
      [] w.ws.tasks[t].pc = "writing" ->
            IF how = "send" THEN sendFragment(w, t, w.ws.tasks[t].k + 1, sendFrames(w, t))
            ELSE wsRaise(w, t, v)
      [] w.ws.tasks[t].pc = "sendClose" -> sendCloseWritten(w, t, how)
      [] w.ws.tasks[t].pc = "joining" ->
            IF how = "send" THEN wsReturn(w, t, w.ws.closingData) ELSE wsRaise(w, t, v)
      [] w.ws.tasks[t].pc = "readFragment" ->
            IF how = "send" THEN frameRead(w, t) ELSE mainBroken(w, t)
      [] w.ws.tasks[t].pc = "replyClose" ->
            IF how = "send" THEN closeReplied(w, t) ELSE mainBroken(w, t)
      [] w.ws.tasks[t].pc = "putResult" -> mainLoop(w, t)
      [] w.ws.tasks[t].pc = "finalClose" -> mainFinish(w, t)
      [] OTHER -> w

\* The dispatcher state after the call of a task's send or throw came out
\* as w.
WsCalled(w, e, rest, i, info) ==
    /\ handleQueue' = w.hq
    /\ cells' = w.cells
    /\ ws' = w.ws
    /\ wslog' = w.log
    /\ invoked' = Append(invoked, e)
    /\ delivered' = delivered \o w.calls
    /\ nextId' = i + (Len(w.hq) - Len(rest))
    /\ lastStep' = [info EXCEPT !.ran = e.id, !.ranKind = e.kind, !.h = e.h]
    /\ UNCHANGED <<handles, poller, reader, rlog, writer, wlog, clog, barrier, blog, recurring, reclog, evfut, evq, elog, sock, slog, greens, awlog, task>>

(***************************************************************************)
(* Barrier and RecurringEvent (aux.py).                                    *)
(***************************************************************************)
\* Barrier(): a Future whose cb is None or a list of callbacks; the empty
\* sequence stands for None, the list being non-empty once it exists.
Barrier == [isDone |-> FALSE, cb |-> <<>>]

NoReleases == [attached |-> <<>>, before |-> 0, releases |-> 0]

\* What a call on the Barrier came to: whether its assertion passed, the
\* Barrier, the main queue and the callbacks called at once.
Released(ok, b, q, d) == [ok |-> ok, barrier |-> b, hq |-> q, calls |-> d]

\* Barrier.setCallback
Barrier_setCallback(b, cb) == [b EXCEPT !.cb = Append(@, cb)]

\* "for cb in self.cb: dispatcher.scheduleHighPriority(cb.send, None)"; the
\* entries are numbered from i.
RECURSIVE scheduleSends(_, _, _)
scheduleSends(q, cbs, i) ==
    IF cbs = <<>> THEN q
    ELSE scheduleSends(scheduleHighPriority(q, Entry(i, "send", 0, 0, Head(cbs), {}, None)),
                       Tail(cbs), i + 1)

\* "for cb in self.cb: cb.send(None)"
callSends(cbs) == [k \in 1..Len(cbs) |-> [cell |-> 0, h |-> cbs[k], how |-> "send", val |-> None]]

\* Mutant: release schedules the first callback only.
Barrier_releaseFirst(b, q, i) ==
    IF b.isDone THEN Released(FALSE, b, q, <<>>)
    ELSE Released(TRUE, [b EXCEPT !.isDone = TRUE],
                  scheduleSends(q, SubSeq(b.cb, 1, Min(1, Len(b.cb))), i), <<>>)

\* Barrier.release
Barrier_release(b, q, i) ==
    IF b.isDone THEN Released(FALSE, b, q, <<>>)
    ELSE Released(TRUE, [b EXCEPT !.isDone = TRUE], scheduleSends(q, b.cb, i), <<>>)

\* Barrier.releaseFast
Barrier_releaseFast(b, q) ==
    IF b.isDone THEN Released(FALSE, b, q, <<>>)
    ELSE Released(TRUE, [b EXCEPT !.isDone = TRUE], q, callSends(b.cb))

\* RecurringEvent(interval, callback)
RecurringEvent == [running |-> FALSE, stopping |-> FALSE]

\* What a call on the RecurringEvent came to: whether it returned (ok) or
\* raised, the event and the timer heap.
Recurred(ok, r, hp) == [ok |-> ok, recurring |-> r, heap |-> hp]

\* RecurringEvent.__schedule at time t; the entry is numbered i.
recurSchedule(hp, t, i) ==
    scheduleHandleByTime(hp, Entry(i, "recur", t + interval, 0, None, {}, None))

\* RecurringEvent.begin
begin(r, hp, t, i) ==
    IF r.stopping THEN Recurred(TRUE, [r EXCEPT !.stopping = FALSE], hp)
    ELSE IF r.running THEN Recurred(FALSE, r, hp)
    ELSE Recurred(TRUE, [r EXCEPT !.running = TRUE], recurSchedule(hp, t, i))

\* RecurringEvent.stop
stop(r, hp) ==
    IF ~r.running THEN Recurred(FALSE, r, hp)
    ELSE Recurred(TRUE, [r EXCEPT !.stopping = TRUE], hp)

\* RecurringEvent.__call__ at time t, after its first statement
\* "self.callback(*self.args)".
recurringCall(r, hp, t, i) ==
    IF r.stopping THEN Recurred(TRUE, [r EXCEPT !.running = FALSE, !.stopping = FALSE], hp)
    ELSE Recurred(TRUE, r, recurSchedule(hp, t, i))

\* The dispatcher state after the timer entry e of the RecurringEvent was
\* called: the user callback was called, then the event came out as out.
RecurCalled(out, e, rest, i, info) ==
    /\ handleQueue' = rest
    /\ recurring' = out.recurring
    /\ reclog' = Append(reclog, "call")
    /\ invoked' = Append(invoked, e)
    /\ nextId' = IF recurring.stopping THEN i ELSE i + 1
    /\ lastStep' = [info EXCEPT !.ran = e.id, !.ranKind = e.kind]
    /\ UNCHANGED <<cells, delivered, handles, poller, reader, rlog, writer, wlog, ws, wslog,
                   clog, barrier, blog, evfut, evq, elog, sock, slog, greens, awlog, task>>

(***************************************************************************)
(* EventFuture and EventQueue (aux.py), on the descriptor fileNumber.      *)
(***************************************************************************)
\* What the inner handle of an EventFuture or an EventQueue does when it is
\* called: it returns a value, raises an exception, or raises IOEventAbort.
InnerOutcomes == {"value", "error", "retry"}

\* No EventFuture was constructed: cell 0.
NoEventFuture == [cell |-> 0, mask |-> {}]

\* No EventQueue was constructed: closeBarrier 0.
NoEventQueue == [queue |-> <<>>, closeBarrier |-> 0, closing |-> FALSE]

\* The program state a method of the two classes works on, with what the
\* method returns (ret) and the cb.send / cb.throw calls it made.  ok is FALSE
\* once an exception is propagating.
IoWorld(ef, eq, cs, q, hs, pl, i) ==
    [ok |-> TRUE, evfut |-> ef, evq |-> eq, cells |-> cs, hq |-> q, handles |-> hs,
     poller |-> pl, base |-> i - Len(q), calls |-> <<>>, ret |-> 0]

\* The world after a call on the dispatcher's handle table came out as r.
ioRegistered(w, r) == [w EXCEPT !.ok = r.ok, !.handles = r.handles, !.poller = r.poller]

\* The world after a call on a Future came out as out.
ioSettled(w, out) ==
    [w EXCEPT !.ok = out.ok, !.cells = out.cells, !.hq = out.hq, !.calls = @ \o out.calls]

\* An exception is raised.
ioRaised(w) == [w EXCEPT !.ok = FALSE]

\* EventFuture.__init__(fileNumber, mask, handle), on the world with the new
\* Future in it.
eventFutureInit(w, mask) ==
    ioRegistered([w EXCEPT !.evfut = [cell |-> w.ret, mask |-> mask]],
                 registerFileEvent(w.handles, w.poller, fileNumber, mask, "evfut"))

EventFuture(w, mask) == eventFutureInit(newFuture(w), mask)

\* EventFuture.__handle after its first statement: the name fileNumber of the
\* except clause for IOEventAbort is not defined (NameError).
eventFutureHandled(w, inner) ==
    IF ~w.ok THEN w
    ELSE IF inner = "value"
    THEN ioSettled(w, setResultFast(w.cells, w.hq, w.evfut.cell, "v1", NewId(w)))
    ELSE IF inner = "retry" THEN ioRaised(w)
    ELSE ioSettled(w, setErrorFast(w.cells, w.hq, w.evfut.cell, "e1", NewId(w)))

\* EventFuture.__handle(mask)
EventFuture_handle(w, inner) ==
    eventFutureHandled(ioRegistered(w, unregisterFileEvent(w.handles, w.poller, fileNumber,
                                                           w.evfut.mask)), inner)

\* EventQueue.__init__(fileNumber, EPOLLIN, handle): closeBarrier is a new
\* Barrier.
EventQueue(w) ==
    [newFuture(w) EXCEPT !.evq = [queue |-> <<>>, closeBarrier |-> Len(w.cells) + 1,
                                  closing |-> FALSE]]

\* EventQueue.get, on the world with the new Future fut = w.ret in it.
getInto(w) ==
    IF w.evq.closing
    THEN ioSettled(w, setError(w.cells, w.hq, w.ret, "EventQueue is closed", NewId(w)))
    ELSE IF w.evq.queue = <<>>
    THEN ioRegistered([w EXCEPT !.evq.queue = <<w.ret>>],
                      registerFileEvent(w.handles, w.poller, fileNumber, {InBit}, "evq"))
    ELSE [w EXCEPT !.evq.queue = Append(@, w.ret)]

EventQueue_get(w) == getInto(newFuture(w))

\* self.closeBarrier.release()
closeBarrierRelease(w) ==
    IF ~w.ok THEN w
    ELSE ioSettled(w, barrierRelease(w.cells, w.hq, w.evq.closeBarrier, NewId(w)))

\* EventQueue.close: "return self.closeBarrie" names no attribute
\* (AttributeError).
EventQueue_close(w) ==
    IF w.evq.closing THEN ioRaised(w)
    ELSE IF w.evq.queue = <<>>
    THEN closeBarrierRelease([w EXCEPT !.evq.closing = TRUE, !.ret = w.evq.closeBarrier])
    ELSE [w EXCEPT !.evq.closing = TRUE, !.ret = w.evq.closeBarrier]

\* The loop of the generator forceClose, consumed by a caller that sets the
\* error on each Future it is given ("for item in ...: item.setError(error)").
RECURSIVE forceCloseYield(_, _)
forceCloseYield(w, error) ==
    IF ~w.ok \/ w.evq.queue = <<>> THEN w
    ELSE forceCloseYield(ioSettled([w EXCEPT !.evq.queue = Tail(@)],
                                   setError(w.cells, w.hq, Head(w.evq.queue), error, NewId(w))),
                         error)

\* forceClose after its first statement
forceCloseClosing(w, error) ==
    IF ~w.ok THEN w
    ELSE forceCloseYield(closeBarrierRelease([w EXCEPT !.evq.closing = TRUE]), error)

\* EventQueue.forceClose, fully consumed.
EventQueue_forceClose(w, error) ==
    forceCloseClosing(IF w.evq.queue # <<>>
                      THEN ioRegistered(w, unregisterFileEvent(w.handles, w.poller, fileNumber,
                                                               {InBit}))
                      ELSE w, error)

\* dispatcher.unregisterFileEvent(self.fileNumber, self.mask) of the queue
unregisterQueue(w) ==
    IF ~w.ok THEN w
    ELSE ioRegistered(w, unregisterFileEvent(w.handles, w.poller, fileNumber, {InBit}))

\* The end of EventQueue.__handle: "if len(self.queue) == 0: ..."
handleEnd(w) ==
    IF ~w.ok \/ w.evq.queue # <<>> THEN w
    ELSE unregisterQueue(IF w.evq.closing THEN closeBarrierRelease(w) ELSE w)

\* fut.setError(e) of the clause "except Exception as e"
handleExcept(w, fut, e) ==
    ioSettled([w EXCEPT !.ok = TRUE], setError(w.cells, w.hq, fut, e, NewId(w)))

\* fut.setResult(getThing), inside the try statement
handleResult(w, fut) ==
    IF w.ok THEN w ELSE handleExcept(w, fut, "AssertionError")

\* EventQueue.__handle after "fut = self.queue.popleft()": a deque has no
\* method pushleft, so the except clause for IOEventAbort raises
\* AttributeError.
eventQueueHandled(w, fut, inner) ==
    IF inner = "value"
    THEN handleEnd(handleResult(ioSettled(w, setResult(w.cells, w.hq, fut, "v1", NewId(w))),
                                fut))
    ELSE IF inner = "retry" THEN ioRaised(w)
    ELSE handleEnd(handleExcept(w, fut, "e1"))

\* EventQueue.__handle(mask): popleft on an empty deque raises IndexError.
EventQueue_handle(w, inner) ==
    IF w.evq.queue = <<>> THEN ioRaised(w)
    ELSE eventQueueHandled([w EXCEPT !.evq.queue = Tail(@)], Head(w.evq.queue), inner)

\* The Future a call of the handle h is for: the EventFuture, or the head of
\* the EventQueue (0: none).
HandledFuture(h) ==
    IF h = "evfut" THEN evfut.cell
    ELSE IF evq.queue = <<>> THEN 0 ELSE Head(evq.queue)

\* The dispatcher state after the call of the handle of the EventFuture or of
\* the EventQueue came out as w, the inner handle doing inner.
IoCalled(w, e, rest, i, info, inner) ==
    /\ handleQueue' = w.hq
    /\ cells' = w.cells
    /\ handles' = w.handles /\ poller' = w.poller
    /\ evfut' = w.evfut /\ evq' = w.evq
    /\ elog' = Append(elog, [h |-> e.h, inner |-> inner, ok |-> w.ok, fut |-> HandledFuture(e.h)])
    /\ invoked' = Append(invoked, e)
    /\ delivered' = delivered \o w.calls
    /\ nextId' = i + (Len(w.hq) - Len(rest))
    /\ lastStep' = [info EXCEPT !.ok = w.ok, !.ran = e.id, !.ranKind = e.kind, !.h = e.h]
    /\ UNCHANGED <<reader, rlog, writer, wlog, ws, wslog, clog, barrier, blog, recurring, reclog,
                   sock, slog, greens, awlog, task>>

(***************************************************************************)
(* _USocketStream (usocket.py) on the descriptor fileNumber: a connected   *)
(* socket with its ReadWrapper and WriteWrapper, or a listening socket     *)
(* with its EventQueue.                                                    *)
(***************************************************************************)
SOCKET_LISTENING == "listening"

\* ReadWrapper(wrapper) is built with the default watermarks.
defaultLowBuffer == 128
defaultHighBuffer == 256

\* The task that runs the generator close() returned (cell 0: none), and the
\* place the generator is suspended at.
NoCloser == [cell |-> 0, pc |-> "none"]

NoSocket == [kind |-> None, state |-> STATE_OPEN, closer |-> NoCloser]

NoSocketCalls == [ops |-> <<>>, closes |-> <<>>, forced |-> <<>>]

\* What the non-blocking socket does during one callback of the writer: as
\* a file does, but _SocketWrapper.flush does nothing.
SocketPlans == {plan \in WritePlans : plan.flush = "done"}

\* What _SocketWrapper.read returns during one callback of the reader: some
\* bytes, or (None) it raises, BrokenPipeError for b"" included.
SocketReads(size) == (iread(size) \ {""}) \cup {None}

\* The program state a method of the socket works on: the worlds of the
\* ReadWrapper, the WriteWrapper and the EventQueue in one.
SocketWorld(s, rd, wr, eq, cs, q, hs, pl, i, plan) ==
    [ok |-> TRUE, sock |-> s, reader |-> rd, writer |-> wr, evq |-> eq, cells |-> cs,
     hq |-> q, handles |-> hs, poller |-> pl, served |-> <<>>, base |-> i - Len(q),
     ret |-> 0, data |-> "", exc |-> None, doneIndex |-> 0, cap |-> plan.cap,
     end |-> plan.end, flush |-> plan.flush, wire |-> "", calls |-> <<>>]

\* errorFuture(error) (aux.py)
errorFuture(w, error) == fail(newFuture(w), Len(w.cells) + 1, error)

\* _USocketStream.accept
USocket_accept(w) ==
    IF w.sock.state = SOCKET_LISTENING THEN EventQueue_get(w)
    ELSE errorFuture(w, "UnstuckSocketStream was not actually listening.")

\* _USocketStream.send
USocket_send(w, buf) ==
    IF w.sock.state # SOCKET_CONNECTED THEN errorFuture(w, "BrokenPipeError")
    ELSE write(w, buf)

\* _USocketStream.recv
USocket_recv(w, length) ==
    IF w.sock.state # SOCKET_CONNECTED THEN errorFuture(w, "BrokenPipeError")
    ELSE read(w, length)

\* __commonCloser: socket.close() also takes the descriptor out of the
\* kernel's epoll set.
commonCloser(w) ==
    IF ~w.ok THEN w
    ELSE [w EXCEPT !.sock.state = SOCKET_CLOSED,
                   !.poller = [f \in (DOMAIN w.poller) \ {fileNumber} |-> w.poller[f]]]

\* __rudeListenCloser
rudeListenCloser(w, error) == commonCloser(EventQueue_forceClose(w, error))

\* self.writer.forceRelease(error), after self.reader.forceRelease(error)
rudeWriterCloser(w, error) == IF ~w.ok THEN w ELSE writeForceRelease(w, error)

\* __rudeCloser
rudeCloser(w, error) == commonCloser(rudeWriterCloser(forceRelease(w, error), error))

\* _USocketStream.forceClose
USocket_forceClose(w, error) ==
    IF w.sock.state = SOCKET_LISTENING
    THEN rudeListenCloser([w EXCEPT !.sock.state = SOCKET_CLOSING], error)
    ELSE IF w.sock.state = SOCKET_CONNECTED
    THEN rudeCloser([w EXCEPT !.sock.state = SOCKET_CLOSING], error)
    ELSE w

\* _Task.send: the generator of the closer came to its end (StopIteration) or
\* raised.
closerEnd(w) ==
    IF w.ok
    THEN ioSettled([w EXCEPT !.sock.closer.pc = "done"],
                   setResultFast(w.cells, w.hq, w.sock.closer.cell, None, NewId(w)))
    ELSE ioSettled([w EXCEPT !.ok = TRUE, !.sock.closer.pc = "done"],
                   setErrorFast(w.cells, w.hq, w.sock.closer.cell, "Exception", NewId(w)))

\* _Task.send: the generator yielded the pending Barrier b, suspended at pc.
closerYield(w, b, pc) ==
    [w EXCEPT !.cells = setCallback(@, b, "closer"), !.sock.closer.pc = pc]

\* __closer and __listenCloser after their last yield from
closerFinish(w) == closerEnd(commonCloser(w))

\* __closer: "yield from readerRelease"
closerReader(w) ==
    IF ~w.ok THEN closerEnd(w)
    ELSE IF w.cells[w.reader.readClosing].isDone THEN closerFinish(w)
    ELSE closerYield(w, w.reader.readClosing, "reader")

\* __closer: "yield from self.writer.release()", the release being called
closerWriter(w) ==
    IF ~w.ok THEN closerEnd(w)
    ELSE IF w.cells[w.writer.writeClosing].isDone THEN closerReader(w)
    ELSE closerYield(w, w.writer.writeClosing, "writer")

\* self.writer.release(), after async(self.reader.release())
closerWriterRelease(w) == IF ~w.ok THEN w ELSE writeRelease(w)

\* __closer from its start
closer(w) == closerWriter(closerWriterRelease(release(w)))

\* __listenCloser: "yield from self.acceptQueue.close()", close being called
listenCloserQueue(w) ==
    IF ~w.ok THEN closerEnd(w)
    ELSE IF w.cells[w.evq.closeBarrier].isDone THEN closerFinish(w)
    ELSE closerYield(w, w.evq.closeBarrier, "queue")

\* __listenCloser from its start
listenCloser(w) == listenCloserQueue(EventQueue_close(w))

\* task.send(None) on the task of the closer
closerSend(w) ==
    CASE w.sock.closer.pc = "start" ->
             IF w.sock.kind = SOCKET_CONNECTED THEN closer(w) ELSE listenCloser(w)
      [] w.sock.closer.pc = "writer" -> closerReader(w)
      [] w.sock.closer.pc \in {"reader", "queue"} -> closerFinish(w)
      [] OTHER -> ioRaised(w)

\* async(gen): the task is a new Future, its first send is scheduled.
asyncCloser(w) ==
    [w EXCEPT !.sock.closer = [cell |-> w.ret, pc |-> "start"],
              !.hq = scheduleHighPriority(@, Entry(NewId(w), "send", 0, w.ret, "closer", {}, None))]

\* async(socket.close()): close() returns a generator, or doneFuture when the
\* socket is neither listening nor connected.
USocket_close(w) ==
    IF w.sock.state \in {SOCKET_LISTENING, SOCKET_CONNECTED}
    THEN asyncCloser(newFuture([w EXCEPT !.sock.state = SOCKET_CLOSING]))
    ELSE [w EXCEPT !.ret = doneFuture]

\* The closer is called back in the course of a handle (Barrier.releaseFast).
closerCalled(w) ==
    IF w.ok /\ \E k \in 1..Len(w.calls) : w.calls[k].h = "closer" THEN closerSend(w) ELSE w

\* ReadWrapper.__handleReadInto on the socket: the exception _SocketWrapper.read
\* raises is handled by the except clause.
socketReadInto(w, mask, data) ==
    IF mask \cap errorCheckingMask = {} /\ data = None THEN readFailed(w, "BrokenPipeError")
    ELSE handleReadInto(w, mask, data)

\* __acceptSocket: the new socket (value), or IOEventAbort.
AcceptOutcomes == {"value", "retry"}

\* The dispatcher state after a handle of the socket, or the send of its
\* closer, came out as w.
SocketCalled(w, e, rest, i, info) ==
    /\ handleQueue' = w.hq
    /\ cells' = w.cells
    /\ handles' = w.handles /\ poller' = w.poller
    /\ reader' = w.reader /\ writer' = w.writer /\ evq' = w.evq
    /\ sock' = w.sock
    /\ invoked' = Append(invoked, e)
    /\ delivered' = delivered \o w.calls
    /\ nextId' = i + (Len(w.hq) - Len(rest))
    /\ lastStep' = [info EXCEPT !.ok = w.ok, !.ran = e.id, !.ranKind = e.kind, !.h = e.h]
    /\ UNCHANGED <<rlog, wlog, ws, wslog, clog, barrier, blog, recurring, reclog, evfut, elog,
                   slog, greens, awlog, task>>

\* handle(args) for an entry of the socket.
SocketPop(e, rest, i, info) ==
    IF e.h = "reader"
    THEN \E data \in (IF e.mask \cap errorCheckingMask # {} THEN {""}
                      ELSE SocketReads(ireadSize(reader))) :
           SocketCalled(socketReadInto(SocketWorld(sock, reader, writer, evq, cells, rest,
                                                   handles, poller, i, NoPlan), e.mask, data),
                        e, rest, i, info)
    ELSE IF e.h = "writer"
    THEN \E plan \in (IF e.mask \cap errorCheckingMask # {} THEN {NoPlan} ELSE SocketPlans) :
           SocketCalled(closerCalled(handleWriteFrom(SocketWorld(sock, reader, writer, evq,
                                                                 cells, rest, handles, poller,
                                                                 i, plan), e.mask)),
                        e, rest, i, info)
    ELSE IF e.h = "evq"
    THEN \E inner \in AcceptOutcomes :
           SocketCalled(EventQueue_handle(SocketWorld(sock, reader, writer, evq, cells, rest,
                                                      handles, poller, i, NoPlan), inner),
                        e, rest, i, info)
    ELSE SocketCalled(closerSend(SocketWorld(sock, reader, writer, evq, cells, rest, handles,
                                             poller, i, NoPlan)),
                      e, rest, i, info)

(***************************************************************************)
(* core.py: await, _handleEvents, _eventLoop and _GreenTask.  A greenlet   *)
(* is a stack of frames; a greenlet that is not running is suspended in    *)
(* the switch() call of its top frame.  switch() hands a value to the      *)
(* target, which goes on from its top frame until a greenlet stands at the *)
(* head of the loop in _eventLoop with its flag set, or the main program   *)
(* has its await call back.  A greenlet whose function returns or raises   *)
(* hands the value or the exception to its parent.                         *)
(***************************************************************************)
\* The greenlet of the main program; 0 stands for None.
mainGreenlet == 1

GreenFrame(f, a, child, ret, success) ==
    [f |-> f, a |-> a, child |-> child, ret |-> ret, success |-> success]

\* The frames: the main program, "while running:" in inner(), the switch()
\* in _eventLoop, the loops and switches of _handleEvents, and the switch in
\* _GreenTask.send and throw.
mainFrame == GreenFrame("main", 0, 0, None, TRUE)

loopFrame == GreenFrame("loop", 0, 0, None, TRUE)

sendFrame == GreenFrame("send", 0, 0, None, TRUE)

Greenlet(parent, fr) == [parent |-> parent, running |-> TRUE, dead |-> FALSE, stack |-> <<fr>>]

NoGreenlets == [root |-> 0, cur |-> mainGreenlet, gs |-> <<Greenlet(0, mainFrame)>>]

NoOutcome == [how |-> None, val |-> None, resolved |-> FALSE, steps |-> 0]

NoAwaits == [awaits |-> <<>>, outcomes |-> <<>>]

\* The value a switch hands over: nothing, (origin, result, success), or an
\* exception that left a greenlet.
GreenValue(kind, origin, ret, success) ==
    [kind |-> kind, origin |-> origin, ret |-> ret, success |-> success]

NoValue == GreenValue("none", 0, None, TRUE)

Raised(error) == GreenValue("exc", 0, error, FALSE)

\* _GreenTask(): the callback object of the greenlet g.
GreenName(g) == "green" \o ToString(g)

GreenOf(h) == CHOOSE g \in 1..(MaxGreenlets + 1) : GreenName(g) = h

GreenWorld(g, aw, cs, q, i, n) ==
    [greens |-> g, awlog |-> aw, cells |-> cs, hq |-> q, base |-> i - Len(q), steps |-> n,
     over |-> FALSE]

Top(m, g) == m.greens.gs[g].stack[Len(m.greens.gs[g].stack)]

popFrame(m, g) == [m EXCEPT !.greens.gs[g].stack = SubSeq(@, 1, Len(@) - 1)]

pushFrame(m, g, fr) == [m EXCEPT !.greens.gs[g].stack = Append(@, fr)]

RECURSIVE resume(_, _, _), loopHead(_, _), awaitReturns(_, _, _, _, _), greenletEnds(_, _, _)

\* _eventLoop in the greenlet g: "greenlet(inner).switch()".  The child's
\* parent is g, and the child begins inner() at "while running:".
eventLoop(m, g) ==
    IF Len(m.greens.gs) >= MaxGreenlets THEN [m EXCEPT !.over = TRUE]
    ELSE [pushFrame(m, g, GreenFrame("eventLoop", 0, Len(m.greens.gs) + 1, None, TRUE))
            EXCEPT !.greens.gs = Append(@, Greenlet(g, loopFrame)),
                   !.greens.cur = Len(m.greens.gs) + 1]

\* "while running:" in inner(), in the greenlet g: one more runNextHandle,
\* or the end of the greenlet.
loopHead(m, g) ==
    IF m.greens.gs[g].running THEN [m EXCEPT !.greens.cur = g]
    ELSE greenletEnds(m, g, NoValue)

\* The function of the greenlet g returned, or raised: its parent goes on.
greenletEnds(m, g, v) ==
    resume([m EXCEPT !.greens.gs[g].dead = TRUE, !.greens.gs[g].stack = <<>>],
           m.greens.gs[g].parent, v)

\* The await call a of the greenlet g returns val or raises it.  Its caller
\* is the main program, or a callback that ends with it, whatever it did.
awaitReturns(m, g, a, success, val) ==
    IF Top(m, g).f = "main"
    THEN [m EXCEPT !.greens.cur = g,
                   !.awlog.awaits[a].out = [how |-> IF success THEN "return" ELSE "raise",
                                            val |-> val,
                                            resolved |-> m.cells[m.awlog.awaits[a].cell].isDone,
                                            steps |-> m.steps]]
    ELSE loopHead([m EXCEPT !.awlog.awaits[a].out =
                                [how |-> IF success THEN "return" ELSE "raise",
                                 val |-> val,
                                 resolved |-> m.cells[m.awlog.awaits[a].cell].isDone,
                                 steps |-> m.steps]], g)

\* _handleEvents of the loop master g after "poll = _eventLoop()": a poll of
\* None starts the next loop; otherwise "origin, ret, success = poll;
\* _rootGreenlet = None; origin.switch()".  An exception that ended the loop
\* greenlet leaves _handleEvents and await as it is.
handleEventsPoll(m, g, a, v) ==
    IF v.kind = "exc" THEN awaitReturns(popFrame(m, g), g, a, FALSE, v.ret)
    ELSE IF v.kind = "none" THEN eventLoop(m, g)
    ELSE resume([m EXCEPT !.greens.root = 0,
                          !.greens.gs[g].stack[Len(m.greens.gs[g].stack)] =
                              GreenFrame("originSwitch", a, 0, v.ret, v.success)],
                v.origin, NoValue)

\* The value v arrives in the greenlet g: its switch() returns v, or raises
\* it.  A dead greenlet passes it to its parent.
resume(m, g, v) ==
    IF m.greens.gs[g].dead THEN resume(m, m.greens.gs[g].parent, v)
    ELSE IF Top(m, g).f = "eventLoop"
    THEN \* "ret = greenlet(inner).switch(); running = False; return ret"
         handleEventsPoll([popFrame(m, g) EXCEPT !.greens.cur = g,
                                                 !.greens.gs[Top(m, g).child].running = FALSE],
                          g, m.greens.gs[g].stack[Len(m.greens.gs[g].stack) - 1].a, v)
    ELSE IF Top(m, g).f = "originSwitch"
    THEN \* "origin.switch(); if success: return ret; else: raise ret"
         IF v.kind = "exc" THEN awaitReturns(popFrame(m, g), g, Top(m, g).a, FALSE, v.ret)
         ELSE awaitReturns(popFrame(m, g), g, Top(m, g).a, Top(m, g).success, Top(m, g).ret)
    ELSE IF Top(m, g).f = "nestedAwait"
    THEN \* "_, ret, success = _rootGreenlet.switch(None)"
         IF v.kind = "exc" THEN awaitReturns(popFrame(m, g), g, Top(m, g).a, FALSE, v.ret)
         ELSE IF v.kind = "triple"
         THEN awaitReturns(popFrame(m, g), g, Top(m, g).a, v.success, v.ret)
         ELSE awaitReturns(popFrame(m, g), g, Top(m, g).a, FALSE, "TypeError")
    ELSE IF Top(m, g).f = "send"
    THEN \* "self.green.switch(getcurrent(), result, True)" returns: so does the handle
         IF v.kind = "exc" THEN greenletEnds(m, g, v)
         ELSE loopHead(popFrame(m, g), g)
    ELSE [m EXCEPT !.greens.cur = g]

\* The call record of an await on the cell c.
AwaitCall(m, g, c) ==
    [cell |-> c, green |-> g, doneAtCall |-> m.cells[c].isDone, stepsAtCall |-> m.steps,
     out |-> NoOutcome]

\* _handleEvents(fut) in the greenlet g, the call record a written:
\* "fut.setCallback(thisTask)", then the greenlet becomes the loop master,
\* or switches to the loop master.  A greenlet that switches to itself has
\* its arguments back at once, and cannot unpack None.
handleEvents(m, g, a) ==
    IF m.greens.root = 0
    THEN eventLoop(pushFrame([m EXCEPT !.greens.root = g], g,
                             GreenFrame("rootAwait", a, 0, None, TRUE)), g)
    ELSE IF m.greens.root = g
    THEN awaitReturns(m, g, a, FALSE, "TypeError")
    ELSE resume(pushFrame(m, g, GreenFrame("nestedAwait", a, 0, None, TRUE)),
                m.greens.root, NoValue)

\* "if thing.isDone: return thing.getResult()" with what getResult did.
awaitDone(m, g, a, got) ==
    awaitReturns([m EXCEPT !.cells = got.cells], g, a, got.raised = None,
                 IF got.raised = None THEN got.value ELSE got.raised)

\* await(thing) on the Future c, called in the greenlet g.
await(m, g, c) ==
    IF m.cells[c].isDone
    THEN awaitDone([m EXCEPT !.awlog.awaits = Append(@, AwaitCall(m, g, c))], g,
                   Len(m.awlog.awaits) + 1, getResult(m.cells, c))
    ELSE handleEvents([m EXCEPT !.awlog.awaits = Append(@, AwaitCall(m, g, c)),
                                !.cells = setCallback(@, c, GreenName(g))],
                      g, Len(m.awlog.awaits) + 1)

\* _GreenTask.send and throw, called in the greenlet g, for the task of the
\* greenlet t.
greenSend(m, g, t, success, val) ==
    IF t = g THEN loopHead(m, g)
    ELSE resume(pushFrame(m, g, sendFrame), t, GreenValue("triple", g, val, success))

\* The setter called by name.
applySetter(how, cs, q, c, v, i) ==
    CASE how = "setResult"     -> setResult(cs, q, c, v, i)
      [] how = "setResultFast" -> setResultFast(cs, q, c, v, i)
      [] how = "setError"      -> setError(cs, q, c, v, i)
      [] how = "setErrorFast"  -> setErrorFast(cs, q, c, v, i)

\* How the cell was resolved.
Resolution(how, v) ==
    [NoOutcome EXCEPT !.how = IF how \in {"setResult", "setResultFast"} THEN "return"
                              ELSE "raise",
                      !.val = v, !.resolved = TRUE]

\* With the setter done as out, on the cell c with v.
setterDone(m, how, c, v, out) ==
    [m EXCEPT !.cells = out.cells, !.hq = out.hq,
              !.awlog.outcomes[c] = Resolution(how, v)]

\* A callback of the program that resolves the cell c, run in the greenlet
\* g.  The fast setters call the waiter's send or throw themselves.
setterCallback(m, g, how, c, v, out) ==
    IF ~out.ok THEN greenletEnds(m, g, Raised("AssertionError"))
    ELSE IF out.calls = <<>> THEN loopHead(setterDone(m, how, c, v, out), g)
    ELSE greenSend(setterDone(m, how, c, v, out), g, GreenOf(out.calls[1].h),
                   out.calls[1].how = "send", v)

\* handle(args) in the loop greenlet g.
greenHandle(m, g, e) ==
    CASE e.kind = "send"    -> greenSend(m, g, GreenOf(e.h), TRUE, e.val)
      [] e.kind = "throw"   -> greenSend([m EXCEPT !.cells = cbError(@, e.cell)], g,
                                         GreenOf(e.h), FALSE, e.val)
      [] e.kind = "setter"  -> setterCallback(m, g, e.h, e.cell, e.val,
                                              applySetter(e.h, m.cells, m.hq, e.cell, e.val,
                                                          NewId(m)))
      [] e.kind = "awaiter" -> await(m, g, e.cell)

\* handle(args) with the handle run in the current loop greenlet.
GreenCalled(m, e, rest, i, info) ==
    /\ ~m.over
    /\ handleQueue' = m.hq
    /\ cells' = m.cells
    /\ greens' = m.greens
    /\ awlog' = m.awlog
    /\ invoked' = Append(invoked, e)
    /\ nextId' = i + (Len(m.hq) - Len(rest))
    /\ lastStep' = [info EXCEPT !.ran = e.id, !.ranKind = e.kind]
    /\ UNCHANGED <<delivered, handles, poller, reader, rlog, writer, wlog, ws, wslog, clog,
                   barrier, blog, recurring, reclog, evfut, evq, elog, sock, slog, task>>

(***************************************************************************)
(* _Task (core.py): a generator that yields cells, driven by send / throw. *)
(***************************************************************************)
\* No _Task was made.  pc "suspended": the generator stands at a yield, of
\* the cell on; resumed: the send and throw calls made on the task.
NoTask == [pc |-> "none", on |-> 0, yields |-> 0, resumed |-> <<>>]

\* What a generator does when it is resumed: it yields one of the cells of
\* the program ("yield c", at most MaxYields times), returns or raises.
GeneratorMoves(cs, tk) ==
    {[do |-> "yield", cell |-> c] : c \in IF tk.yields < MaxYields THEN 1..Len(cs) ELSE {}}
    \cup {[do |-> "return", cell |-> 0], [do |-> "raise", cell |-> 0]}

\* The body of _Task.send(result) and _Task.throw(error), the generator
\* making the move: the cell the generator yields gets the task as its
\* callback; StopIteration and other exceptions complete the task's own
\* Future.
taskAdvance(tk, cs, move) ==
    IF move.do = "yield"
    THEN [task |-> [tk EXCEPT !.pc = "suspended", !.on = move.cell, !.yields = @ + 1],
          cells |-> setCallback(cs, move.cell, "task")]
    ELSE [task |-> [tk EXCEPT !.pc = IF move.do = "return" THEN "done" ELSE "failed"],
          cells |-> cs]

\* _Task.send(val) or _Task.throw(val), called for the cell c.
taskResume(tk, cs, c, how, val, move) ==
    taskAdvance([tk EXCEPT !.pc = "running",
                           !.resumed = Append(@, [cell |-> c, how |-> how, val |-> val])],
                cs, move)

\* handle(args) with the handle the send or throw method of the task.
TaskCalled(out, e, rest, i, info) ==
    /\ handleQueue' = rest
    /\ cells' = out.cells
    /\ task' = out.task
    /\ invoked' = Append(invoked, e)
    /\ delivered' = Append(delivered, [cell |-> e.cell, h |-> e.h, how |-> e.kind, val |-> e.val])
    /\ nextId' = i
    /\ lastStep' = [info EXCEPT !.ran = e.id, !.ranKind = e.kind, !.h = e.h]
    /\ UNCHANGED <<handles, poller, reader, rlog, writer, wlog, ws, wslog, clog, barrier, blog,
                   recurring, reclog, evfut, evq, elog, sock, slog, greens, awlog>>

(***************************************************************************)
(* The call handle(args) at the end of runNextHandle, by kind of entry.   *)
(***************************************************************************)
Call(e, cs, q, i) ==
    CASE e.kind = "sleep" -> setResult(cs, q, e.cell, None, i)
      [] e.kind = "send"  -> Outcome(TRUE, cs, q,
                                <<[cell |-> e.cell, h |-> e.h, how |-> "send", val |-> e.val]>>)
      [] e.kind = "throw" -> Outcome(TRUE, cbError(cs, e.cell), q,
                                <<[cell |-> e.cell, h |-> e.h, how |-> "throw", val |-> e.val]>>)
      [] OTHER            -> Outcome(TRUE, cs, q, <<>>)

\* "handle, args = self.handleQueue.popleft(); handle(args)" on the queue q
\* that the first half of runNextHandle left behind.
PopAndCall(q, low, hp, t, i, info) ==
    /\ ops' = IF info.events THEN ops + 1 ELSE ops
    /\ queuedAt' = Stamped(queuedAt, info.drained, <<>>, i)
    /\ lowQueue' = low /\ now' = t
    /\ heap' = IF q # <<>> /\ Head(q).kind = "recur"
               THEN recurringCall(recurring, hp, t, i).heap ELSE hp
    /\ UNCHANGED <<queue, qlog>>
    /\ IF q = <<>>
       THEN /\ handleQueue' = q /\ nextId' = i
            /\ lastStep' = [info EXCEPT !.ok = FALSE]                \* IndexError
            /\ UNCHANGED <<cells, invoked, delivered, handles, poller, reader, rlog,
                           writer, wlog, ws, wslog, clog, barrier, blog, recurring, reclog, evfut, evq, elog, sock, slog, greens, awlog, task>>
       ELSE LET e == Head(q) IN
            IF greens.cur # mainGreenlet
            THEN GreenCalled(greenHandle(GreenWorld(greens, awlog, cells, Tail(q), i,
                                                    Len(invoked) + 1), greens.cur, e),
                             e, Tail(q), i, info)
            ELSE IF sock.kind # None
            THEN SocketPop(e, Tail(q), i, info)
            ELSE IF e.kind \in {"send", "throw"} /\ e.h = "task" /\ task.pc # "none"
            THEN \E move \in GeneratorMoves(cells, task) :
                   TaskCalled(taskResume(task, IF e.kind = "throw" THEN cbError(cells, e.cell)
                                               ELSE cells, e.cell, e.kind, e.val, move),
                              e, Tail(q), i, info)
            ELSE IF e.kind = "fd" /\ e.h = "reader"
            THEN \E data \in (IF e.mask \cap errorCheckingMask # {} THEN {""}
                              ELSE iread(ireadSize(reader))) :
                   ReaderCalled(handleReadInto(World(reader, cells, Tail(q), handles, poller, i),
                                               e.mask, data),
                                e, Tail(q), i, info, data)
            ELSE IF e.kind = "fd" /\ e.h = "writer"
            THEN \E plan \in (IF e.mask \cap errorCheckingMask # {} THEN {NoPlan}
                              ELSE WritePlans) :
                   WriterCalled(handleWriteFrom(WriterWorld(writer, cells, Tail(q), handles,
                                                            poller, i, plan), e.mask),
                                e, Tail(q), i, info)
            ELSE IF e.kind \in {"send", "throw"} /\ e.h \in DOMAIN ws.tasks
            THEN WsCalled(wsResume(WsWorld(ws, wslog,
                                           IF e.kind = "throw" THEN cbError(cells, e.cell)
                                           ELSE cells, Tail(q), i),
                                   e.h, e.kind, e.val),
                          e, Tail(q), i, info)
            ELSE IF e.kind = "fd" /\ e.h = "evfut"
            THEN \E inner \in InnerOutcomes :
                   IoCalled(EventFuture_handle(IoWorld(evfut, evq, cells, Tail(q), handles,
                                                       poller, i), inner),
                            e, Tail(q), i, info, inner)
            ELSE IF e.kind = "fd" /\ e.h = "evq"
            THEN \E inner \in InnerOutcomes :
                   IoCalled(EventQueue_handle(IoWorld(evfut, evq, cells, Tail(q), handles,
                                                      poller, i), inner),
                            e, Tail(q), i, info, inner)
            ELSE IF e.kind = "recur"
            THEN RecurCalled(recurringCall(recurring, hp, t, i), e, Tail(q), i, info)
            ELSE LET out == Call(e, cells, Tail(q), i)
                 IN /\ handleQueue' = out.hq
                    /\ cells' = out.cells
                    /\ delivered' = delivered \o out.calls
                    /\ invoked' = Append(invoked, e)
                    /\ nextId' = i + (Len(out.hq) - Len(Tail(q)))
                    /\ lastStep' = [info EXCEPT !.ran = e.id, !.ranKind = e.kind]
                    /\ UNCHANGED <<handles, poller, reader, rlog, writer, wlog, ws, wslog, clog, barrier, blog, recurring, reclog, evfut, evq, elog, sock, slog, greens, awlog, task>>

\* The poll results explored: no event once the budget of inputs is used up.
EventSets == IF ops < budget THEN PollResults(poller) ELSE {EmptyMap}

StepInfo == [NoStep EXCEPT !.op = "runNext", !.emptyBefore = (handleQueue = <<>>),
                           !.expired = {e.id : e \in expiredAt(heap, now)}]

\* Dispatcher.runNextHandle, with _pollEvents and _pollEventsFast inlined.
\* The clock may advance while the step runs: t is its value when the last
\* readyTime() of the step is evaluated.
runNextHandle ==
    /\ UNCHANGED budget
    /\ IF handleQueue # <<>>
       THEN PopAndCall(handleQueue, lowQueue, heap, now, nextId, StepInfo)
       ELSE IF readyTime(heap, now) < 0
       THEN \E t \in now..MaxTime : \E s \in drainOrders(heap, t) :
               PopAndCall(s, lowQueue, heap \ Range(s), t, nextId,
                          [StepInfo EXCEPT !.drained = Ids(s)])
       ELSE IF lowQueue # <<>>
       THEN \E ev \in EventSets : \E ord \in Orderings(eventTargets(handles, ev)) :
               PopAndCall(Append(eventEntries(handles, ev, ord, nextId), Head(lowQueue)),
                          Tail(lowQueue), heap, now, nextId + Len(ord),
                          [StepInfo EXCEPT !.polled = "fast", !.events = (DOMAIN ev # {}),
                                           !.movedLow = Head(lowQueue).id])
       ELSE \E ev \in EventSets :
               IF DOMAIN ev = {}
               THEN \* poll timed out: it slept until the earliest deadline at least
                    /\ heap # {}
                    /\ \E t \in MinKey(heap)..MaxTime : \E s \in drainOrders(heap, t) :
                         PopAndCall(s, lowQueue, heap \ Range(s), t, nextId,
                                    [StepInfo EXCEPT !.polled = "wait", !.drained = Ids(s)])
               ELSE \E ord \in Orderings(eventTargets(handles, ev)) :
                       PopAndCall(eventEntries(handles, ev, ord, nextId), lowQueue, heap,
                                  now, nextId + Len(ord),
                                  [StepInfo EXCEPT !.polled = "wait", !.events = TRUE])

\* Queue(length): empty deques.
Queue(length) == [values |-> <<>>, getwaiters |-> <<>>, putwaiters |-> <<>>, length |-> length]

\* No getResult was called and no cell was destroyed.
NoCalls == [got |-> <<>>, dels |-> <<>>]

\* The initial state of the objects in a specification that does not use them.
NoObjects ==
    /\ queue = Queue(-1) /\ qlog = [puts |-> <<>>, putCells |-> <<>>, gets |-> <<>>]
    /\ reader = ReadWrapperFields(0, 0) /\ rlog = NoReads
    /\ writer = WriteWrapper /\ wlog = NoWrites
    /\ ws = NoWebsocket /\ wslog = NoFrames
    /\ clog = NoCalls
    /\ barrier = Barrier
    /\ blog = NoReleases
    /\ recurring = RecurringEvent
    /\ reclog = <<>>
    /\ evfut = NoEventFuture
    /\ evq = NoEventQueue
    /\ elog = <<>>
    /\ sock = NoSocket
    /\ slog = NoSocketCalls
    /\ greens = NoGreenlets
    /\ awlog = NoAwaits
    /\ task = NoTask

(***************************************************************************)
(* The dispatcher specification: calls on the Dispatcher made by the       *)
(* program (from the top level or from inside callbacks), the passing of   *)
(* time, and the scheduling step.                                          *)
(***************************************************************************)
CallInfo(name, ok) == [NoStep EXCEPT !.op = name, !.ok = ok]

ScheduleHigh ==
    /\ ops < budget
    /\ handleQueue' = scheduleHighPriority(handleQueue, Entry(nextId, "high", 0, 0, None, {}, None))
    /\ queuedAt' = Stamped(queuedAt, {nextId}, handleQueue, nextId + 1)
    /\ nextId' = nextId + 1 /\ ops' = ops + 1
    /\ lastStep' = CallInfo("scheduleHigh", TRUE)
    /\ UNCHANGED <<lowQueue, heap, handles, poller, now, cells, invoked, delivered, budget>>
    /\ UNCHANGED objVars

ScheduleMedium ==
    /\ ops < budget
    /\ handleQueue' = scheduleMediumPriority(handleQueue, Entry(nextId, "medium", 0, 0, None, {}, None))
    /\ queuedAt' = Stamped(queuedAt, {nextId}, handleQueue, nextId + 1)
    /\ nextId' = nextId + 1 /\ ops' = ops + 1
    /\ lastStep' = CallInfo("scheduleMedium", TRUE)
    /\ UNCHANGED <<lowQueue, heap, handles, poller, now, cells, invoked, delivered, budget>>
    /\ UNCHANGED objVars

ScheduleLow ==
    /\ ops < budget
    /\ lowQueue' = scheduleLowPriority(lowQueue, Entry(nextId, "low", 0, 0, None, {}, None))
    /\ nextId' = nextId + 1 /\ ops' = ops + 1
    /\ lastStep' = CallInfo("scheduleLow", TRUE)
    /\ UNCHANGED <<handleQueue, heap, handles, poller, now, cells, invoked, delivered, queuedAt, budget>>
    /\ UNCHANGED objVars

\* callAt(when, what): any deadline, past or future.
ScheduleAt ==
    /\ ops < budget
    /\ \E when \in Times :
          heap' = scheduleHandleByTime(heap, Entry(nextId, "timer", when, 0, None, {}, None))
    /\ nextId' = nextId + 1 /\ ops' = ops + 1
    /\ lastStep' = CallInfo("scheduleAt", TRUE)
    /\ UNCHANGED <<handleQueue, lowQueue, handles, poller, now, cells, invoked, delivered, queuedAt, budget>>
    /\ UNCHANGED objVars

\* sleep(forTime), forTime >= 0; the caller may then wait on the returned
\* Future (w is its callback) or not (w = None).
Sleep ==
    /\ ops < budget
    /\ \E forTime \in 0..MaxTime : \E w \in {"task"} :
          /\ now + forTime <= MaxTime
          /\ cells' = Append(cells, setCallback(<<Future>>, 1, w)[1])
          /\ heap' = scheduleHandleByTime(heap,
                        Entry(nextId, "sleep", now + forTime, Len(cells) + 1, None, {}, None))
    /\ nextId' = nextId + 1 /\ ops' = ops + 1
    /\ lastStep' = CallInfo("sleep", TRUE)
    /\ UNCHANGED <<handleQueue, lowQueue, handles, poller, now, invoked, delivered, queuedAt, budget>>
    /\ UNCHANGED objVars

Register ==
    /\ ops < budget
    /\ \E fd \in FDs, mask \in RegMasks, h \in Handlers :
          LET r == registerFileEvent(handles, poller, fd, mask, h) IN
          /\ handles' = r.handles /\ poller' = r.poller
          /\ lastStep' = [CallInfo("register", r.ok) EXCEPT !.fd = fd, !.mask = mask, !.h = h]
    /\ ops' = ops + 1
    /\ UNCHANGED <<handleQueue, lowQueue, heap, now, cells, invoked, delivered, queuedAt, nextId, budget>>
    /\ UNCHANGED objVars

Unregister ==
    /\ ops < budget
    /\ \E fd \in FDs, mask \in RegMasks :
          LET r == unregisterFileEvent(handles, poller, fd, mask) IN
          /\ handles' = r.handles /\ poller' = r.poller
          /\ lastStep' = [CallInfo("unregister", r.ok) EXCEPT !.fd = fd, !.mask = mask]
    /\ ops' = ops + 1
    /\ UNCHANGED <<handleQueue, lowQueue, heap, now, cells, invoked, delivered, queuedAt, nextId, budget>>
    /\ UNCHANGED objVars

Tick ==
    /\ now < MaxTime
    /\ now' = now + 1
    /\ UNCHANGED <<handleQueue, lowQueue, heap, handles, poller, cells, invoked, delivered,
                   queuedAt, lastStep, nextId, ops, budget>>
    /\ UNCHANGED objVars

InitDisp ==
    /\ handleQueue = <<>> /\ lowQueue = <<>> /\ heap = {}
    /\ handles = EmptyMap /\ poller = EmptyMap
    /\ now = 0 /\ cells = <<>>
    /\ invoked = <<>> /\ delivered = <<>> /\ queuedAt = EmptyMap
    /\ lastStep = NoStep /\ nextId = 1 /\ ops = 0 /\ budget = MaxOps
    /\ NoObjects

NextDisp ==
    \/ ScheduleHigh \/ ScheduleMedium \/ ScheduleLow \/ ScheduleAt \/ Tick \/ runNextHandle

SpecDisp == InitDisp /\ [][NextDisp]_vars

\* This step is a call of runNextHandle: it invoked an entry or left its own
\* record (the passing of time leaves both as they were).
RunNextStep == lastStep'.op = "runNext" /\ (invoked' # invoked \/ lastStep' # lastStep)

NextSleep ==
    \/ Sleep \/ ScheduleLow \/ Register \/ Tick \/ runNextHandle

SpecSleep == InitDisp /\ [][NextSleep]_vars

NextFd ==
    \/ Register \/ Unregister \/ runNextHandle

InitFd ==
    /\ handleQueue = <<>> /\ lowQueue = <<>> /\ heap = {}
    /\ handles = EmptyMap /\ poller = EmptyMap
    /\ now = 0 /\ cells = <<>>
    /\ invoked = <<>> /\ delivered = <<>> /\ queuedAt = EmptyMap
    /\ lastStep = NoStep /\ nextId = 1 /\ ops = 0 /\ budget = MaxFdOps
    /\ NoObjects

SpecFd == InitFd /\ [][NextFd]_vars

(***************************************************************************)
(* Properties of the dispatcher.                                           *)
(***************************************************************************)
IsTimer(e) == e.kind \in {"timer", "sleep"}

\* C2 (as stated): entries of equal priority (both schedule_high, or both
\* schedule_medium) are invoked in the order they were enqueued, and a
\* schedule_high entry is invoked before every schedule_medium entry that
\* was queued when it was enqueued.
C2_SamePriorityFifo ==
    /\ \A i, j \in 1..Len(invoked) :
          (i < j /\ invoked[i].kind = invoked[j].kind /\ invoked[i].kind \in {"high", "medium"})
              => invoked[i].id < invoked[j].id
    /\ \A i, j \in 1..Len(invoked) :
          (i < j /\ invoked[j].kind = "high" /\ invoked[i].kind = "medium")
              => invoked[i].id \notin queuedAt[invoked[j].id].queue

\* C2 (amended): schedule_medium entries are invoked in the order they were
\* enqueued; a schedule_high entry is invoked before every entry, of either
\* priority, that was queued when it was enqueued, so that schedule_high
\* entries queued together are invoked latest first.
C2_MainQueueOrder ==
    /\ \A i, j \in 1..Len(invoked) :
          (i < j /\ invoked[i].kind = "medium" /\ invoked[j].kind = "medium")
              => invoked[i].id < invoked[j].id
    /\ \A i, j \in 1..Len(invoked) :
          (i < j /\ invoked[j].kind = "high" /\ invoked[i].kind \in {"high", "medium"})
              => invoked[i].id \notin queuedAt[invoked[j].id].queue
    /\ \A i, j \in 1..Len(invoked) :
          (invoked[i].kind = "high" /\ invoked[j].kind = "high"
             /\ invoked[i].id \in queuedAt[invoked[j].id].queue) => j < i

\* C2 witness: a medium entry, then two high entries enqueued while it waits;
\* they ran latest-high first, the medium entry last.
C2_Witness ==
    /\ Len(invoked) = 3
    /\ <<invoked[1].kind, invoked[2].kind, invoked[3].kind>> = <<"high", "high", "medium">>
    /\ <<invoked[1].id, invoked[2].id, invoked[3].id>> = <<3, 2, 1>>

\* C3 (as stated): no timer callback is invoked after a timer callback that
\* had a strictly later deadline.
C3_DeadlineOrder ==
    \A i, j \in 1..Len(invoked) :
        (i < j /\ IsTimer(invoked[i]) /\ IsTimer(invoked[j])) => invoked[i].key <= invoked[j].key

\* C3 (amended): a timer callback is invoked after one with a strictly later
\* deadline only if it was scheduled after that later timer had already been
\* moved from the heap to the main queue.
C3_DeadlineOrderAmongPending ==
    \A i, j \in 1..Len(invoked) :
        (i < j /\ IsTimer(invoked[i]) /\ IsTimer(invoked[j]) /\ invoked[i].key > invoked[j].key)
            => invoked[j].id >= queuedAt[invoked[i].id].count

\* C3 witness: two timers scheduled latest-deadline first were both invoked,
\* earliest deadline first.
C3_Witness ==
    \E i, j \in 1..Len(invoked) :
        /\ i < j /\ invoked[i].kind = "timer" /\ invoked[j].kind = "timer"
        /\ invoked[i].key < invoked[j].key /\ invoked[i].id > invoked[j].id

\* The cell completed by the sleep whose Future is c.
SleepKey(c) == (CHOOSE e \in Range(invoked) : e.kind = "sleep" /\ e.cell = c).key

\* C4: a step that finds the main queue empty and a timer expired moves every
\* expired timer to the main queue and invokes a timer callback, without
\* polling and without moving a low-priority entry; and sleeps complete (and
\* their waiters are resumed) in deadline order.
C4_ExpiredTimersFirst ==
    /\ (lastStep.op = "runNext" /\ lastStep.emptyBefore /\ lastStep.expired # {})
          => /\ lastStep.ok
             /\ lastStep.polled = "no" /\ lastStep.movedLow = 0
             /\ lastStep.expired \subseteq lastStep.drained
             /\ lastStep.ranKind \in {"timer", "sleep"}
             /\ lastStep.ran \in lastStep.drained
             /\ \A e \in heap : e.id \notin lastStep.expired
    /\ \A i, j \in 1..Len(invoked) :
          (i < j /\ invoked[i].kind = "sleep" /\ invoked[j].kind = "sleep")
              => /\ invoked[i].key <= invoked[j].key
                 /\ cells[invoked[i].cell].isDone
    /\ \A i, j \in 1..Len(delivered) :
          i < j => SleepKey(delivered[i].cell) <= SleepKey(delivered[j].cell)

\* C4 witness: two sleeps with different deadlines have completed and resumed
\* their tasks, with a low-priority entry queued meanwhile, and the last step
\* drained an expired timer while a low-priority entry was waiting.
C4_Witness ==
    /\ Len(delivered) >= 1
    /\ \E i, j \in 1..Len(invoked) :
          i < j /\ invoked[i].kind = "sleep" /\ invoked[j].kind = "sleep"
                /\ invoked[i].key < invoked[j].key
    /\ lastStep.op = "runNext" /\ lastStep.emptyBefore /\ lastStep.expired # {}
    /\ lowQueue # <<>>

\* C5: register_fd fails exactly when the mask shares a bit with a mask
\* already registered for the fd, and then changes nothing; otherwise the
\* binding is added beside the others and the poller's interest mask of
\* the fd becomes the union of the masks registered for it.
C5_RegisterFd ==
    [][(lastStep'.op = "register" /\ ops' = ops + 1) =>
         LET fd == lastStep'.fd
             mask == lastStep'.mask
             old == IF fd \in DOMAIN handles THEN DOMAIN handles[fd] ELSE {}
         IN IF \E om \in old : om \cap mask # {}
            THEN ~lastStep'.ok /\ handles' = handles /\ poller' = poller
            ELSE /\ lastStep'.ok
                 /\ DOMAIN handles' = (DOMAIN handles) \cup {fd}
                 /\ DOMAIN poller' = DOMAIN handles'
                 /\ DOMAIN handles'[fd] = old \cup {mask}
                 /\ handles'[fd][mask] = lastStep'.h
                 /\ \A om \in old : handles'[fd][om] = handles[fd][om]
                 /\ \A f \in DOMAIN handles : f # fd => handles'[f] = handles[f] /\ poller'[f] = poller[f]
                 /\ poller'[fd] = UNION (old \cup {mask})]_vars

\* C5 witness: with two disjoint masks registered on one fd, a third
\* registration has just been rejected.
C5_Witness ==
    /\ lastStep.op = "register" /\ ~lastStep.ok
    /\ lastStep.fd \in DOMAIN handles
    /\ DOMAIN handles[lastStep.fd] = {{InBit}, {OutBit}}
    /\ poller[lastStep.fd] = {InBit, OutBit}

\* C6: unregister_fd removes exactly the named binding; the fd leaves the
\* table and the poller with its last binding, otherwise the poller's mask
\* becomes the union of the remaining masks; unregistering a pair that is
\* not registered fails and changes nothing.
C6_UnregisterFd ==
    [][(lastStep'.op = "unregister" /\ ops' = ops + 1) =>
         LET fd == lastStep'.fd
             mask == lastStep'.mask
             old == IF fd \in DOMAIN handles THEN DOMAIN handles[fd] ELSE {}
         IN IF mask \notin old
            THEN ~lastStep'.ok /\ handles' = handles /\ poller' = poller
            ELSE /\ lastStep'.ok
                 /\ DOMAIN poller' = DOMAIN handles'
                 /\ \A f \in DOMAIN handles : f # fd => handles'[f] = handles[f] /\ poller'[f] = poller[f]
                 /\ IF old = {mask}
                    THEN DOMAIN handles' = (DOMAIN handles) \ {fd}
                    ELSE /\ DOMAIN handles' = DOMAIN handles
                         /\ DOMAIN handles'[fd] = old \ {mask}
                         /\ \A om \in old \ {mask} : handles'[fd][om] = handles[fd][om]
                         /\ poller'[fd] = UNION (old \ {mask})]_vars

\* C6 witness: a second unregister of a pair has just failed while another
\* mask of the same fd is still registered.
C6_Witness ==
    /\ lastStep.op = "unregister" /\ ~lastStep.ok
    /\ ops = 4
    /\ lastStep.fd \in DOMAIN handles
    /\ lastStep.mask = {InBit}
    /\ DOMAIN handles[lastStep.fd] = {{OutBit}}
    /\ poller[lastStep.fd] = {OutBit}

(***************************************************************************)
(* The Future specification: a few cells, on which the program attaches    *)
(* callbacks and calls the six setters in any order, and the scheduling    *)
(* step that runs the callbacks the setters scheduled.                     *)
(***************************************************************************)
SetOps == {"setResult", "setResultLate", "setResultFast",
           "setError", "setErrorLate", "setErrorFast"}

\* The step made by a setter call on cell c whose effect is out.
SetterStep(name, c, out) ==
    /\ ops < budget
    /\ cells' = out.cells
    /\ handleQueue' = out.hq
    /\ delivered' = delivered \o out.calls
    /\ nextId' = nextId + (Len(out.hq) - Len(handleQueue))
    /\ lastStep' = [CallInfo(name, out.ok) EXCEPT !.cell = c]
    /\ ops' = ops + 1
    /\ UNCHANGED <<lowQueue, heap, handles, poller, now, invoked, queuedAt, budget>>
    /\ UNCHANGED objVars

SetResult ==
    \E c \in 1..Len(cells), v \in Values :
        SetterStep("setResult", c, setResult(cells, handleQueue, c, v, nextId))

SetResultLate ==
    \E c \in 1..Len(cells), v \in Values :
        SetterStep("setResultLate", c, setResultLate(cells, handleQueue, c, v, nextId))

SetResultFast ==
    \E c \in 1..Len(cells), v \in Values :
        SetterStep("setResultFast", c, setResultFast(cells, handleQueue, c, v, nextId))

SetError ==
    \E c \in 1..Len(cells), v \in Errors :
        SetterStep("setError", c, setError(cells, handleQueue, c, v, nextId))

SetErrorLate ==
    \E c \in 1..Len(cells), v \in Errors :
        SetterStep("setErrorLate", c, setErrorLate(cells, handleQueue, c, v, nextId))

SetErrorFast ==
    \E c \in 1..Len(cells), v \in Errors :
        SetterStep("setErrorFast", c, setErrorFast(cells, handleQueue, c, v, nextId))

SetCallback ==
    /\ ops < budget
    /\ \E c \in 1..Len(cells), w \in Waiters :
          /\ cells' = setCallback(cells, c, w)
          /\ lastStep' = [CallInfo("setCallback", TRUE) EXCEPT !.cell = c, !.h = w]
    /\ ops' = ops + 1
    /\ UNCHANGED <<handleQueue, lowQueue, heap, handles, poller, now, invoked, delivered,
                   queuedAt, nextId, budget>>
    /\ UNCHANGED objVars

InitCell ==
    /\ handleQueue = <<>> /\ lowQueue = <<>> /\ heap = {}
    /\ handles = EmptyMap /\ poller = EmptyMap
    /\ now = 0 /\ cells = [c \in 1..NumCells |-> Future]
    /\ invoked = <<>> /\ delivered = <<>> /\ queuedAt = EmptyMap
    /\ lastStep = NoStep /\ nextId = 1 /\ ops = 0 /\ budget = MaxCellOps
    /\ NoObjects

NextCell ==
    \/ SetResult \/ SetResultLate \/ SetResultFast
    \/ SetError \/ SetErrorLate \/ SetErrorFast
    \/ SetCallback \/ runNextHandle

SpecCell == InitCell /\ [][NextCell]_vars

\* The callbacks of cell c that are scheduled or were already made.
Resumptions(c) ==
    Cardinality({i \in 1..Len(handleQueue) : handleQueue[i].cell = c})
      + Cardinality({i \in 1..Len(delivered) : delivered[i].cell = c})

\* C1: a Future is resolved at most once: a setter called on a pending cell
\* completes it, a setter called on a completed cell fails and leaves the
\* cells, the scheduled callbacks and the callbacks made unchanged; a
\* completed cell stays completed with the same result and error, and its
\* callback is scheduled or made at most once.
C1_ResolvedAtMostOnce ==
    [][/\ (lastStep'.op \in SetOps /\ ops' = ops + 1) =>
            LET c == lastStep'.cell IN
            IF cells[c].isDone
            THEN /\ ~lastStep'.ok
                 /\ cells' = cells /\ handleQueue' = handleQueue /\ delivered' = delivered
            ELSE /\ lastStep'.ok /\ cells'[c].isDone
                 /\ \A d \in 1..Len(cells) : d # c => cells'[d] = cells[d]
       /\ \A c \in 1..Len(cells) :
            /\ cells[c].isDone =>
                  /\ cells'[c].isDone
                  /\ cells'[c].result = cells[c].result /\ cells'[c].error = cells[c].error
            /\ Resumptions(c)' <= 1]_vars

\* C1 witness: a setter has just failed on a cell that was completed with a
\* waiter attached, whose single callback is still scheduled.
C1_Witness ==
    /\ lastStep.op \in SetOps /\ ~lastStep.ok
    /\ cells[lastStep.cell].isDone /\ cells[lastStep.cell].cb # None
    /\ \E i \in 1..Len(handleQueue) : handleQueue[i].cell = lastStep.cell

(***************************************************************************)
(* The asynchronous Queue (queue.py).                                      *)
(***************************************************************************)
\* The capacities a Queue is built with; -1 is the default.
Capacities == {-1, 0, 1, 2}

\* The value of the k-th put: every put carries a value of its own.
PutValue(k) == <<"p1", "p2", "p3", "p4", "p5", "p6", "p7", "p8">>[k]

\* deque.append on a deque built with maxlen (no maxlen when length = -1):
\* a full deque drops its leftmost element.
dequeAppend(d, v, length) ==
    IF length = -1 \/ Len(d) < length THEN Append(d, v)
    ELSE IF length = 0 THEN d
    ELSE Append(Tail(d), v)

QueueOutcome(ok, qu, out, ret) ==
    [ok |-> ok, queue |-> qu, cells |-> out.cells, hq |-> out.hq, ret |-> ret]

\* Mutant: a put on a full buffer appends to the buffer all the same.
putNeverBlocks(qu, cs, q, value, i) ==
    IF Len(qu.getwaiters) > 0
    THEN LET out == setResult(cs, q, Head(qu.getwaiters), value, i)
         IN QueueOutcome(out.ok, [qu EXCEPT !.getwaiters = Tail(qu.getwaiters)], out, doneFuture)
    ELSE QueueOutcome(TRUE, [qu EXCEPT !.values = Append(qu.values, value)],
                      Outcome(TRUE, cs, q, <<>>), doneFuture)

\* Mutant: put does not look for a waiting consumer.
putIgnoresConsumers(qu, cs, q, value, i) ==
    IF qu.length > Len(qu.values) \/ qu.getwaiters # <<>>
    THEN QueueOutcome(TRUE, [qu EXCEPT !.values = Append(qu.values, value)],
                      Outcome(TRUE, cs, q, <<>>), doneFuture)
    ELSE QueueOutcome(TRUE,
             [qu EXCEPT !.putwaiters = Append(qu.putwaiters, [cell |-> Len(cs) + 1, value |-> value])],
             Outcome(TRUE, Append(cs, Future), q, <<>>), Len(cs) + 1)

\* Queue.put(value)
put(qu, cs, q, value, i) ==
    IF Len(qu.getwaiters) > 0
    THEN LET out == setResult(cs, q, Head(qu.getwaiters), value, i)
         IN QueueOutcome(out.ok, [qu EXCEPT !.getwaiters = Tail(qu.getwaiters)], out, doneFuture)
    ELSE IF qu.length > Len(qu.values)
    THEN QueueOutcome(TRUE, [qu EXCEPT !.values = dequeAppend(qu.values, value, qu.length)],
                      Outcome(TRUE, cs, q, <<>>), doneFuture)
    ELSE LET getBarrier == Len(cs) + 1
         IN QueueOutcome(TRUE,
                [qu EXCEPT !.putwaiters = Append(qu.putwaiters, [cell |-> getBarrier, value |-> value])],
                Outcome(TRUE, Append(cs, Future), q, <<>>), getBarrier)

\* Queue.get(): the new Future fut is resolved with the variable "value",
\* which in the first branch is the value of the waiting producer.
get(qu, cs, q, i) ==
    LET fut == Len(cs) + 1
        cs1 == Append(cs, Future)
    IN IF Len(qu.putwaiters) > 0
       THEN LET getBarrier == Head(qu.putwaiters).cell
                value == Head(qu.putwaiters).value
                qu1 == [qu EXCEPT !.putwaiters = Tail(qu.putwaiters)]
            IN IF qu.length > 0 /\ qu.values = <<>>
               THEN QueueOutcome(FALSE, qu1, Outcome(FALSE, cs1, q, <<>>), fut)   \* IndexError
               ELSE LET qu2 == IF qu.length > 0
                               THEN [qu1 EXCEPT !.values = dequeAppend(Tail(qu.values), value, qu.length)]
                               ELSE qu1
                        out1 == setResult(cs1, q, getBarrier, None, i)
                        out2 == setResult(out1.cells, out1.hq, fut, value, i + 1)
                    IN IF out1.ok THEN QueueOutcome(out2.ok, qu2, out2, fut)
                       ELSE QueueOutcome(FALSE, qu2, out1, fut)
       ELSE IF Len(qu.values) > 0
       THEN LET value == Head(qu.values)
                out == setResult(cs1, q, fut, value, i)
            IN QueueOutcome(out.ok, [qu EXCEPT !.values = Tail(qu.values)], out, fut)
       ELSE QueueOutcome(TRUE, [qu EXCEPT !.getwaiters = Append(qu.getwaiters, fut)],
                         Outcome(TRUE, cs1, q, <<>>), fut)

QueueStep(name, out) ==
    /\ ops < budget
    /\ queue' = out.queue
    /\ cells' = out.cells
    /\ handleQueue' = out.hq
    /\ nextId' = nextId + (Len(out.hq) - Len(handleQueue))
    /\ lastStep' = [CallInfo(name, out.ok) EXCEPT !.cell = out.ret]
    /\ ops' = ops + 1
    /\ UNCHANGED <<lowQueue, heap, handles, poller, now, invoked, delivered, queuedAt, budget,
                   reader, rlog, writer, wlog, ws, wslog, clog, barrier, blog, recurring, reclog, evfut, evq, elog, sock, slog, greens, awlog, task>>

\* A producer calls put with a value of its own.
Put ==
    LET value == PutValue(Len(qlog.puts) + 1)
        out == put(queue, cells, handleQueue, value, nextId)
    IN /\ QueueStep("put", out)
       /\ qlog' = [qlog EXCEPT !.puts = Append(@, value), !.putCells = Append(@, out.ret)]

\* A consumer calls get.
Get ==
    LET out == get(queue, cells, handleQueue, nextId)
    IN /\ QueueStep("get", out)
       /\ qlog' = [qlog EXCEPT !.gets = Append(@, out.ret)]

\* The task that received a pending cell from put or get yields it:
\* _Task.send sets itself as the callback of the cell.
Yield ==
    /\ ops < budget
    /\ \E c \in (Range(qlog.putCells) \cup Range(qlog.gets)) \ {doneFuture} :
          /\ ~cells[c].isDone /\ cells[c].cb = None
          /\ cells' = setCallback(cells, c, "task")
          /\ lastStep' = [CallInfo("setCallback", TRUE) EXCEPT !.cell = c, !.h = "task"]
    /\ ops' = ops + 1
    /\ UNCHANGED <<handleQueue, lowQueue, heap, handles, poller, now, invoked, delivered,
                   queuedAt, nextId, budget, queue, qlog, reader, rlog, writer, wlog, ws, wslog, clog, barrier, blog, recurring, reclog, evfut, evq, elog, sock, slog, greens, awlog, task>>

InitQueue ==
    /\ handleQueue = <<>> /\ lowQueue = <<>> /\ heap = {}
    /\ handles = EmptyMap /\ poller = EmptyMap
    /\ now = 0 /\ cells = <<DoneCell>>
    /\ invoked = <<>> /\ delivered = <<>> /\ queuedAt = EmptyMap
    /\ lastStep = NoStep /\ nextId = 1 /\ ops = 0 /\ budget = MaxQueueOps
    /\ \E length \in Capacities : queue = Queue(length)
    /\ qlog = [puts |-> <<>>, putCells |-> <<>>, gets |-> <<>>]
    /\ reader = ReadWrapperFields(0, 0) /\ rlog = NoReads
    /\ writer = WriteWrapper /\ wlog = NoWrites
    /\ ws = NoWebsocket /\ wslog = NoFrames
    /\ clog = NoCalls
    /\ barrier = Barrier
    /\ blog = NoReleases
    /\ recurring = RecurringEvent
    /\ reclog = <<>>
    /\ evfut = NoEventFuture
    /\ evq = NoEventQueue
    /\ elog = <<>>
    /\ sock = NoSocket
    /\ slog = NoSocketCalls
    /\ greens = NoGreenlets
    /\ awlog = NoAwaits
    /\ task = NoTask

NextQueue == Put \/ Get \/ Yield \/ runNextHandle

SpecQueue == InitQueue /\ [][NextQueue]_vars

\* The value the completed Future c was resolved with: stored in the Future,
\* or carried by the send entry scheduled for (or delivered to) its callback.
SentTo(c) ==
    {e.val : e \in {x \in Range(handleQueue) : x.kind = "send" /\ x.cell = c}}
    \cup {d.val : d \in {x \in Range(delivered) : x.how = "send" /\ x.cell = c}}

ResolvedValue(c) ==
    IF cells[c].result # Unset THEN cells[c].result
    ELSE IF SentTo(c) # {} THEN CHOOSE v \in SentTo(c) : TRUE
    ELSE Unset

IsPut == qlog'.puts # qlog.puts

IsGet == qlog'.gets # qlog.gets

Blocked(qu) == {qu.putwaiters[k].cell : k \in 1..Len(qu.putwaiters)}

\* C7: on a bounded queue (capacity > 0) the k-th get() cell, once resolved,
\* holds the value of the k-th put: the queue is FIFO, whatever the
\* interleaving of put and get.
C7_QueueFifo ==
    queue.length > 0 =>
        \A k \in 1..Len(qlog.gets) :
            (cells[qlog.gets[k]].isDone /\ k <= Len(qlog.puts))
                => ResolvedValue(qlog.gets[k]) = qlog.puts[k]

\* The parts of C8 on a bounded queue (capacity >= 0).
\* A put with no consumer waiting and a full buffer returns a new pending
\* cell, queues it behind the blocked producers and leaves the buffer alone.
C8_PutBlocks ==
    (IsPut /\ queue.length >= 0 /\ queue.getwaiters = <<>>
        /\ Len(queue.values) = queue.length)
    => /\ lastStep'.cell \notin DOMAIN cells
       /\ ~cells'[lastStep'.cell].isDone
       /\ queue'.values = queue.values
       /\ queue'.putwaiters = Append(queue.putwaiters,
                                [cell |-> lastStep'.cell, value |-> qlog'.puts[Len(qlog'.puts)]])

\* A blocked producer's cell stays pending, and stays queued, through every
\* step that is not a get.
C8_StaysPending ==
    (queue.length >= 0 /\ ~IsGet)
    => \A k \in 1..Len(queue.putwaiters) :
          /\ ~cells'[queue.putwaiters[k].cell].isDone
          /\ k <= Len(queue'.putwaiters) /\ queue'.putwaiters[k] = queue.putwaiters[k]

\* A get made while producers are blocked resolves the oldest blocked
\* producer's cell and no other.
C8_GetReleasesOldest ==
    (IsGet /\ queue.length >= 0 /\ queue.putwaiters # <<>>)
    => /\ cells'[Head(queue.putwaiters).cell].isDone
       /\ queue'.putwaiters = Tail(queue.putwaiters)
       /\ \A c \in Blocked(queue') : ~cells'[c].isDone

\* That get moves the released producer's value to the tail of the buffer.
C8_GetMovesValue ==
    (IsGet /\ queue.length >= 0 /\ queue.putwaiters # <<>>)
    => /\ queue'.values # <<>>
       /\ queue'.values[Len(queue'.values)] = Head(queue.putwaiters).value

\* With capacity 0 there is no buffer to move the value into: the get's own
\* cell is resolved with the released producer's value.
C8_GetMovesValueIfRoom ==
    (IsGet /\ queue.length >= 0 /\ queue.putwaiters # <<>>)
    => IF queue.length > 0
       THEN queue'.values = Append(Tail(queue.values), Head(queue.putwaiters).value)
       ELSE /\ queue'.values = <<>>
            /\ cells'[lastStep'.cell].result = Head(queue.putwaiters).value

C8_BufferBounded == queue.length >= 0 => Len(queue.values) <= queue.length

\* C8 as stated: on a bounded queue a put on a full buffer with no consumer
\* waiting returns a pending cell and does not add to the buffer; the cell
\* stays pending until a later get(); each such get() resolves exactly the
\* oldest blocked producer's cell and moves its value into the buffer; the
\* buffer never holds more than capacity values.
C8_ProducerBlocking ==
    /\ []C8_BufferBounded
    /\ [][C8_PutBlocks /\ C8_StaysPending /\ C8_GetReleasesOldest /\ C8_GetMovesValue]_vars

\* C8 amended: as above, except that the released producer's value is moved
\* into the buffer only when capacity > 0; with capacity 0 the buffer stays
\* empty and the value resolves the get's own cell.
C8_ProducerBlockingIfRoom ==
    /\ []C8_BufferBounded
    /\ [][C8_PutBlocks /\ C8_StaysPending /\ C8_GetReleasesOldest /\ C8_GetMovesValueIfRoom]_vars

\* A get on a queue of capacity > 0 has just released the older of two
\* blocked producers; the younger is still blocked.
C8_Witness ==
    /\ queue.length > 0 /\ lastStep.op = "get"
    /\ Len(queue.values) = queue.length
    /\ queue.putwaiters # <<>>
    /\ \E c \in Range(qlog.putCells) \ Blocked(queue) : c # doneFuture /\ cells[c].isDone

\* C9: on a queue of negative capacity a put with no consumer waiting returns
\* a completed cell, and no producer is ever left pending.
C9_UnboundedPut ==
    queue.length < 0 =>
        /\ queue.putwaiters = <<>>
        /\ lastStep.op = "put" => cells[lastStep.cell].isDone

\* C39: consumers and producers are never pending together; consumers are
\* pending only while the buffer is empty, producers only while the buffer
\* holds at least `length` values; so sumSize() is negative exactly when a
\* consumer is waiting, and is then minus the number of waiting consumers.
C39_QueueStructure ==
    /\ (queue.getwaiters = <<>> \/ queue.putwaiters = <<>>)
    /\ (queue.getwaiters # <<>> => queue.values = <<>>)
    /\ (queue.putwaiters # <<>> => Len(queue.values) >= queue.length)
    /\ (sumSize(queue) < 0 <=> queue.getwaiters # <<>>)
    /\ (queue.getwaiters # <<>> => sumSize(queue) = 0 - Len(queue.getwaiters))

\* Two consumers wait on a queue that has served a put before.
C39_Witness ==
    /\ Len(queue.getwaiters) = 2 /\ sumSize(queue) = 0 - 2 /\ qlog.puts # <<>>

(***************************************************************************)
(* The ReadWrapper specification: one wrapper on the dispatcher; the       *)
(* application calls read, readline, release and forceRelease and yields   *)
(* the cells it was given; the dispatcher polls and calls back.            *)
(***************************************************************************)
\* The (lowBuffer, highBuffer) pairs a wrapper is built with, scaled to the
\* sizes of the data explored.
Watermarks == {<<1, 2>>}

ReadLengths == 1..MaxRead

\* A call of a ReadWrapper method that came out as w; a call of read(req) or
\* of readline (req = -1) adds the cell it returns to the requests, another
\* method (req = 0) does not.
ReadStep(name, w, req) ==
    /\ ops < budget
    /\ reader' = w.reader
    /\ cells' = w.cells
    /\ handleQueue' = w.hq
    /\ handles' = w.handles /\ poller' = w.poller
    /\ nextId' = nextId + (Len(w.hq) - Len(handleQueue))
    /\ lastStep' = [CallInfo(name, w.ok) EXCEPT !.cell = w.ret]
    /\ rlog' = [reqs |-> IF req # 0 THEN Append(rlog.reqs, w.ret) ELSE rlog.reqs,
                lens |-> IF req # 0 THEN Append(rlog.lens, req) ELSE rlog.lens,
                served |-> rlog.served \o w.served,
                os |-> rlog.os]
    /\ ops' = ops + 1
    /\ UNCHANGED <<lowQueue, heap, now, invoked, delivered, queuedAt, budget, queue, qlog,
                   writer, wlog, ws, wslog, clog, barrier, blog, recurring, reclog, evfut, evq, elog, sock, slog, greens, awlog, task>>

CurrentWorld == World(reader, cells, handleQueue, handles, poller, nextId)

Read == \E length \in ReadLengths : ReadStep("read", read(CurrentWorld, length), length)

Readline == ReadStep("readline", readline(CurrentWorld), -1)

Release == ReadStep("release", release(CurrentWorld), 0)

ForceRelease ==
    ReadStep("forceRelease", forceRelease(CurrentWorld, "InterruptedTransfer"), 0)

\* The task that was given a pending read cell yields it.
YieldRead ==
    /\ ops < budget
    /\ \E c \in Range(rlog.reqs) :
          /\ ~cells[c].isDone /\ cells[c].cb = None
          /\ cells' = setCallback(cells, c, "task")
          /\ lastStep' = [CallInfo("setCallback", TRUE) EXCEPT !.cell = c, !.h = "task"]
    /\ ops' = ops + 1
    /\ UNCHANGED <<handleQueue, lowQueue, heap, handles, poller, now, invoked, delivered,
                   queuedAt, nextId, budget, queue, qlog, reader, rlog, writer, wlog, ws, wslog, clog, barrier, blog, recurring, reclog, evfut, evq, elog, sock, slog, greens, awlog, task>>

\* The wrapper, and the dispatcher it registered with, after construction.
Constructed(w) == reader = w.reader /\ handles = w.handles /\ poller = w.poller

InitRead ==
    /\ handleQueue = <<>> /\ lowQueue = <<>> /\ heap = {}
    /\ \E wm \in Watermarks : Constructed(ReadWrapper(wm[1], wm[2]))
    /\ now = 0 /\ cells = <<>>
    /\ invoked = <<>> /\ delivered = <<>> /\ queuedAt = EmptyMap
    /\ lastStep = NoStep /\ nextId = 1 /\ ops = 0 /\ budget = MaxReadOps
    /\ queue = Queue(-1) /\ qlog = [puts |-> <<>>, putCells |-> <<>>, gets |-> <<>>]
    /\ rlog = NoReads
    /\ writer = WriteWrapper /\ wlog = NoWrites
    /\ ws = NoWebsocket /\ wslog = NoFrames
    /\ clog = NoCalls
    /\ barrier = Barrier
    /\ blog = NoReleases
    /\ recurring = RecurringEvent
    /\ reclog = <<>>
    /\ evfut = NoEventFuture
    /\ evq = NoEventQueue
    /\ elog = <<>>
    /\ sock = NoSocket
    /\ slog = NoSocketCalls
    /\ greens = NoGreenlets
    /\ awlog = NoAwaits
    /\ task = NoTask

NextRead == Read \/ Readline \/ Release \/ ForceRelease \/ YieldRead \/ runNextHandle

SpecRead == InitRead /\ [][NextRead]_vars

\* The position of cell c in the sequence s (0 when absent).
PosIn(s, c) == IF \E k \in 1..Len(s) : s[k] = c THEN CHOOSE k \in 1..Len(s) : s[k] = c ELSE 0

ServedAt(c) ==
    IF \E p \in 1..Len(rlog.served) : rlog.served[p].cell = c
    THEN CHOOSE p \in 1..Len(rlog.served) : rlog.served[p].cell = c
    ELSE 0

\* C10: read cells are satisfied in request order: whenever a read cell is
\* resolved with data, every read cell requested before it on the wrapper
\* has already been resolved (none is still pending); the cells recorded as
\* resolved are exactly the read cells that are done.
C10_ReadOrder ==
    /\ \A c \in Range(rlog.reqs) : cells[c].isDone <=> ServedAt(c) > 0
    /\ \A p \in 1..Len(rlog.served) :
          rlog.served[p].how = "data" =>
             \A k \in 1..(PosIn(rlog.reqs, rlog.served[p].cell) - 1) :
                 /\ ServedAt(rlog.reqs[k]) > 0
                 /\ ServedAt(rlog.reqs[k]) < p

\* Two reads waited together and a readiness callback has resolved both
\* with data.
C10_Witness ==
    /\ lastStep.op = "runNext" /\ lastStep.ranKind = "fd"
    /\ Len(rlog.served) >= 2
    /\ rlog.served[Len(rlog.served)].how = "data"
    /\ rlog.served[Len(rlog.served) - 1].how = "data"
    /\ reader.bufSize > 0

\* Whether the read cell c was resolved with data.
GotData(c) == \E p \in 1..Len(rlog.served) : rlog.served[p] = [cell |-> c, how |-> "data"]

\* The results of the first k read cells that were resolved with data,
\* concatenated in request order.
RECURSIVE ReadResults(_)
ReadResults(k) ==
    IF k = 0 THEN ""
    ELSE ReadResults(k - 1)
         \o (IF GotData(rlog.reqs[k]) THEN ResolvedValue(rlog.reqs[k]) ELSE "")

\* The stream is intact: what the reads got, then the buffer, is what iread
\* returned.
C11_NothingLost == ReadResults(Len(rlog.reqs)) \o Join(reader.buf) = rlog.os

\* A read(n) that was resolved with data holds exactly n bytes.
C11_ExactLength ==
    \A k \in 1..Len(rlog.reqs) :
        (rlog.lens[k] > 0 /\ GotData(rlog.reqs[k]))
            => Len(ResolvedValue(rlog.reqs[k])) = rlog.lens[k]

\* A read(n) is resolved as soon as n bytes are there: the read at the head
\* of the waiters never faces a buffer of n bytes or more.
C11_NoLateRead ==
    (Len(reader.readWaiters) > 0 /\ Head(reader.readWaiters).length > 0)
        => Len(Join(reader.buf)) < Head(reader.readWaiters).length

\* C11: byte-stream integrity of the ReadWrapper: the results of the
\* resolved read cells in request order, followed by the buffer, are exactly
\* the bytes obtained from the file, in order; a read(n) resolves with
\* exactly n bytes as soon as n bytes are available, the surplus staying in
\* the buffer.
C11_StreamIntegrity == C11_NothingLost /\ C11_ExactLength /\ C11_NoLateRead

\* The last step ran the reader's readiness callback.
AfterReadCallback == lastStep.op = "runNext" /\ lastStep.ranKind = "fd" /\ lastStep.h = None

\* The reader's handle is in the dispatcher's table.
ReaderRegistered ==
    fileNumber \in DOMAIN handles /\ {InBit} \in DOMAIN handles[fileNumber]

\* C12: after every readable-readiness callback, either the buffer size is
\* below the high watermark or the reader is not registered with the
\* dispatcher.
C12_Backpressure ==
    AfterReadCallback => (reader.bufSize < reader.bufSizeHigh \/ ~ReaderRegistered)

\* C12 amended: the same, after every callback that leaves no read waiting;
\* while a read is waiting the reader stays registered whatever the buffer
\* holds.
C12_BackpressureWhenIdle ==
    AfterReadCallback =>
        \/ Len(reader.readWaiters) > 0 /\ ReaderRegistered
        \/ Len(reader.readWaiters) = 0
             /\ (reader.bufSize < reader.bufSizeHigh \/ ~ReaderRegistered)

\* A callback has filled the buffer to the high watermark with no read
\* waiting, and the reader was unregistered.
C12_Witness ==
    /\ AfterReadCallback /\ lastStep.ok
    /\ Len(reader.readWaiters) = 0 /\ reader.readClosing = 0
    /\ reader.bufSize >= reader.bufSizeHigh /\ ~ReaderRegistered

\* runNextHandle calls the reader's callback with the error or the hang-up
\* bit in its mask.
ReaderErrorCall ==
    /\ Len(invoked') = Len(invoked) + 1
    /\ invoked'[Len(invoked')].kind = "fd" /\ invoked'[Len(invoked')].h = "reader"
    /\ invoked'[Len(invoked')].mask \cap errorCheckingMask # {}

\* The exception __handleReadInto raises for the mask of that call.
MaskError == IF ErrBit \in invoked'[Len(invoked')].mask THEN "Error on file object"
             ELSE "Stream closed"

\* The head waiter, if there was one, is failed with the error in this step:
\* stored in its cell, or on its way to the cell's callback.
HeadFailed ==
    reader.readWaiters # <<>> =>
        /\ ~cells[Head(reader.readWaiters).cell].isDone
        /\ cells'[Head(reader.readWaiters).cell].isDone
        /\ \/ cells'[Head(reader.readWaiters).cell].error = MaskError
           \/ \E x \in Range(handleQueue') :
                 x.kind = "throw" /\ x.cell = Head(reader.readWaiters).cell /\ x.val = MaskError
        /\ reader'.readWaiters = Tail(reader.readWaiters)

\* After the step the reader is not registered, and the Barrier of a
\* wrapper that is closing is released.
ReaderTornDown ==
    /\ ~reader'.registeredReader
    /\ ~(fileNumber \in DOMAIN handles' /\ {InBit} \in DOMAIN handles'[fileNumber])
    /\ reader.readClosing # 0 => cells'[reader.readClosing].isDone

\* The step leaves the registration and the Barrier as they were.
ReaderKept ==
    /\ reader'.registeredReader = reader.registeredReader
    /\ handles' = handles /\ poller' = poller
    /\ reader.readClosing # 0 =>
          cells'[reader.readClosing].isDone = cells[reader.readClosing].isDone

\* C31: a callback of the reader with the error or hang-up bit set fails the
\* head read waiter (if any) with the error and leaves the reader
\* unregistered, also when waiters are queued behind the head; if the wrapper
\* is closing, its Barrier is released.
C31_TerminalCondition ==
    [][ReaderErrorCall => (HeadFailed /\ ReaderTornDown)]_vars

\* C31 amended: such a callback fails the head read waiter (if any) with the
\* error; when no waiter is queued behind the head the reader is
\* unregistered and the Barrier of a closing wrapper is released; when
\* waiters are queued behind it they stay queued, the reader stays
\* registered and the Barrier is not released by this callback.
C31_TerminalConditionWhenLast ==
    [][ReaderErrorCall =>
           /\ HeadFailed
           /\ IF Len(reader.readWaiters) <= 1 THEN ReaderTornDown ELSE ReaderKept]_vars

\* An error callback has just failed the last waiter of a wrapper that is
\* closing: the reader is unregistered and the Barrier released.
C31_Witness ==
    /\ lastStep.op = "runNext" /\ lastStep.ranKind = "fd"
    /\ invoked[Len(invoked)].mask \cap errorCheckingMask # {}
    /\ rlog.served # <<>> /\ rlog.served[Len(rlog.served)].how = "error"
    /\ reader.readClosing # 0 /\ cells[reader.readClosing].isDone
    /\ ~reader.registeredReader /\ reader.readWaiters = <<>>
    /\ lastStep.ok

(***************************************************************************)
(* A WriteWrapper under its callers: write, release, forceRelease, tasks   *)
(* yielding the cells, and the dispatcher running the writable callback.   *)
(***************************************************************************)
WriteLengths == 0..MaxWrite

\* The bytes the k-th call of write passes: length times a byte of its own.
RECURSIVE WriteBuffer(_, _)
WriteBuffer(k, length) ==
    IF length = 0 THEN "" ELSE SubSeq("abcdefgh", k, k) \o WriteBuffer(k, length - 1)

\* A call of a WriteWrapper method that came out as w; a call of write(buf)
\* (isWrite) adds buf and the cell it returns to the history.
WriteStep(name, w, isWrite, buf) ==
    /\ ops < budget
    /\ writer' = w.writer
    /\ cells' = w.cells
    /\ handleQueue' = w.hq
    /\ handles' = w.handles /\ poller' = w.poller
    /\ nextId' = nextId + (Len(w.hq) - Len(handleQueue))
    /\ lastStep' = [CallInfo(name, w.ok) EXCEPT !.cell = w.ret]
    /\ wlog' = [bufs |-> IF isWrite THEN Append(wlog.bufs, buf) ELSE wlog.bufs,
                cells |-> IF isWrite THEN Append(wlog.cells, w.ret) ELSE wlog.cells,
                done |-> wlog.done \o w.served,
                wire |-> wlog.wire]
    /\ delivered' = delivered \o w.calls
    /\ ops' = ops + 1
    /\ UNCHANGED <<lowQueue, heap, now, invoked, queuedAt, budget, queue, qlog, reader, rlog,
                   ws, wslog, clog, barrier, blog, recurring, reclog, evfut, evq, elog, sock, slog, greens, awlog, task>>

CurrentWriterWorld == WriterWorld(writer, cells, handleQueue, handles, poller, nextId, NoPlan)

Write ==
    \E length \in WriteLengths :
        WriteStep("write", write(CurrentWriterWorld, WriteBuffer(Len(wlog.bufs) + 1, length)),
                  TRUE, WriteBuffer(Len(wlog.bufs) + 1, length))

WriteRelease == WriteStep("release", writeRelease(CurrentWriterWorld), FALSE, "")

WriteForceRelease ==
    WriteStep("forceRelease", writeForceRelease(CurrentWriterWorld, "InterruptedTransfer"),
              FALSE, "")

\* The task that was given a pending cell of the wrapper yields it.
YieldWrite ==
    /\ ops < budget
    /\ \E c \in 1..Len(cells) :
          /\ ~cells[c].isDone /\ cells[c].cb = None
          /\ cells' = setCallback(cells, c, "task")
          /\ lastStep' = [CallInfo("setCallback", TRUE) EXCEPT !.cell = c, !.h = "task"]
    /\ ops' = ops + 1
    /\ UNCHANGED <<handleQueue, lowQueue, heap, handles, poller, now, invoked, delivered,
                   queuedAt, nextId, budget, queue, qlog, reader, rlog, writer, wlog, ws, wslog, clog, barrier, blog, recurring, reclog, evfut, evq, elog, sock, slog, greens, awlog, task>>

InitWrite ==
    /\ handleQueue = <<>> /\ lowQueue = <<>> /\ heap = {}
    /\ handles = EmptyMap /\ poller = EmptyMap
    /\ now = 0
    /\ cells = <<>>
    /\ queue = Queue(-1) /\ qlog = [puts |-> <<>>, putCells |-> <<>>, gets |-> <<>>]
    /\ reader = ReadWrapperFields(0, 0) /\ rlog = NoReads
    /\ writer = WriteWrapper /\ wlog = NoWrites
    /\ ws = NoWebsocket /\ wslog = NoFrames
    /\ clog = NoCalls
    /\ barrier = Barrier
    /\ blog = NoReleases
    /\ recurring = RecurringEvent
    /\ reclog = <<>>
    /\ evfut = NoEventFuture
    /\ evq = NoEventQueue
    /\ elog = <<>>
    /\ sock = NoSocket
    /\ slog = NoSocketCalls
    /\ greens = NoGreenlets
    /\ awlog = NoAwaits
    /\ task = NoTask
    /\ invoked = <<>> /\ delivered = <<>>
    /\ queuedAt = EmptyMap
    /\ lastStep = NoStep
    /\ nextId = 1
    /\ ops = 0
    /\ budget = MaxWriteOps

NextWrite ==
    \/ Write
    \/ WriteRelease
    \/ WriteForceRelease
    \/ YieldWrite
    \/ runNextHandle

SpecWrite == InitWrite /\ [][NextWrite]_vars

\* The sum of the lengths of the bytes the waiters still hold.
RECURSIVE Remaining(_)
Remaining(waiters) ==
    IF waiters = <<>> THEN 0 ELSE Len(Head(waiters).data) + Remaining(Tail(waiters))

AfterWrite == lastStep.op = "write"

AfterWriteCallback == lastStep.op = "runNext" /\ lastStep.ranKind = "fd" /\ lastStep.h = "writer"

\* C13: after every call of write and after every writable-readiness callback,
\* however the callback went, writeWaitingSize is the sum of the lengths of
\* the bytes the queued write waiters still hold.
C13_Accounting ==
    (AfterWrite \/ AfterWriteCallback) => writer.writeWaitingSize = Remaining(writer.writeWaiters)

\* The cell c was resolved with a result.
Wrote(c) == \E p \in 1..Len(wlog.done) : wlog.done[p] = [cell |-> c, how |-> "data"]

\* The cell c was failed with an error.
WriteFailed(c) == \E p \in 1..Len(wlog.done) : wlog.done[p] = [cell |-> c, how |-> "error"]

\* The number of bytes of the k-th write that the file has accepted.
Accepted(k) ==
    Cardinality({p \in 1..Len(wlog.wire) : SubSeq(wlog.wire, p, p) = WriteBuffer(k, 1)})

\* The bytes accepted of the first k writes, each write's bytes together and
\* the writes in call order.
RECURSIVE AcceptedInOrder(_)
AcceptedInOrder(k) ==
    IF k = 0 THEN "" ELSE AcceptedInOrder(k - 1) \o WriteBuffer(k, Accepted(k))

Writes == 1..Len(wlog.bufs)

\* The step is a call of the writer's writable-readiness callback.
WriterCallbackStep ==
    RunNextStep /\ lastStep'.ranKind = "fd" /\ lastStep'.h = "writer"

\* The cells the step settled, in the order it settled them.
SettledInStep == SubSeq(wlog'.done, Len(wlog.done) + 1, Len(wlog'.done))

\* The bytes the file accepted in the step.
WrittenInStep == Len(wlog'.wire) - Len(wlog.wire)

\* The number of waiters at the front of the queue whose bytes are all among
\* the first d bytes the queue holds.
RECURSIVE FullyWritten(_, _)
FullyWritten(waiters, d) ==
    IF waiters = <<>> \/ Len(Head(waiters).data) > d THEN 0
    ELSE 1 + FullyWritten(Tail(waiters), d - Len(Head(waiters).data))

\* The errors the cell c was failed with, stored in it or on their way to its
\* callback.
WriteErrors(cs, q, sent, c) ==
    ({cs[c].error} \ {None})
    \cup {x.val : x \in {y \in Range(q) : y.kind = "throw" /\ y.cell = c}}
    \cup {d.val : d \in {y \in Range(sent) : y.how = "throw" /\ y.cell = c}}

\* The callback failed a cell.
DrainFailed == \E p \in 1..Len(SettledInStep) : SettledInStep[p].how = "error"

\* The number of waiters a failing drain is to fail: those written in full
\* and the one at the head of what is left, where there is one.
FailCount ==
    IF FullyWritten(writer.writeWaiters, WrittenInStep) < Len(writer.writeWaiters)
    THEN FullyWritten(writer.writeWaiters, WrittenInStep) + 1
    ELSE Len(writer.writeWaiters)

\* C32: a writable-readiness callback that fails — the file's write or flush
\* raising, or the mask carrying an error or hangup bit — fails the waiters
\* whose bytes the file took in full in this callback and the waiter at the
\* head of the rest, these and no others, in queue order and all with the
\* one error; it resolves no cell with a length; the waiters behind stay
\* queued as they were.
C32_FailureBoundary ==
    [][(WriterCallbackStep /\ DrainFailed) =>
          /\ Len(SettledInStep) = FailCount
          /\ \A p \in 1..Len(SettledInStep) :
                SettledInStep[p] = [cell |-> writer.writeWaiters[p].cell, how |-> "error"]
          /\ \E v \in {"Error on file object", "Stream closed", "OSError", "IndexError"} :
                \A p \in 1..Len(SettledInStep) : 
                    WriteErrors(cells', handleQueue', delivered', SettledInStep[p].cell) = {v}
          /\ writer'.writeWaiters =
                SubSeq(writer.writeWaiters, FailCount + 1, Len(writer.writeWaiters))]_vars

\* A callback wrote the two bytes of the first write, failed on the second,
\* failed the cells of both and left the third write queued.
C32_Witness ==
    /\ AfterWriteCallback
    /\ Len(wlog.bufs) = 3 /\ Len(wlog.bufs[1]) = 2
    /\ Len(wlog.wire) = 2
    /\ WriteFailed(wlog.cells[1]) /\ WriteFailed(wlog.cells[2])
    /\ ~cells[wlog.cells[3]].isDone
    /\ Len(writer.writeWaiters) = 1 /\ writer.writeWaiters[1].data = wlog.bufs[3]

\* The writer's handle is in the dispatcher's table.
WriterRegistered ==
    fileNumber \in DOMAIN handles /\ {OutBit} \in DOMAIN handles[fileNumber]

\* C36: after every call of write, release and forceRelease and after every
\* writable-readiness callback, the writer's handle is registered with the
\* dispatcher exactly when a write waiter is queued, which is exactly when
\* the count of bytes waiting is above zero.
C36_RegisteredIffWaiting ==
    /\ WriterRegistered <=> writer.writeWaiters # <<>>
    /\ writer.writeWaiters # <<>> <=> writer.writeWaitingSize > 0

C14_CallOrder == wlog.wire = AcceptedInOrder(Len(wlog.bufs))

C14_NotTwice == \A k \in Writes : Accepted(k) <= Len(wlog.bufs[k])

C14_NotSkipped ==
    \A j, k \in Writes :
        (j < k /\ Accepted(k) > 0) =>
            (Accepted(j) = Len(wlog.bufs[j]) \/ WriteFailed(wlog.cells[j]))

C14_WholeLength ==
    \A k \in Writes :
        (Len(wlog.bufs[k]) > 0 /\ Wrote(wlog.cells[k])) =>
            /\ ResolvedValue(wlog.cells[k]) = ToString(Len(wlog.bufs[k]))
            /\ Accepted(k) = Len(wlog.bufs[k])

C14_ResolveOrder ==
    \A j, k \in Writes :
        (j < k /\ Len(wlog.bufs[j]) > 0 /\ Len(wlog.bufs[k]) > 0 /\ Wrote(wlog.cells[k])) =>
            cells[wlog.cells[j]].isDone

\* C14: the cell of a non-empty write, when it resolves, resolves with the
\* length of the buffer written and only once the file has accepted every
\* byte of it; the file is given the bytes in the order of the write calls,
\* none twice, none passed over while its write is still to complete; the
\* cell of a later write does not resolve while an earlier one is pending.
C14_WriteCompletion ==
    C14_CallOrder /\ C14_NotTwice /\ C14_NotSkipped /\ C14_WholeLength /\ C14_ResolveOrder

\* The first write of two bytes has resolved, over more than one callback or
\* not, and the callback just run left the second write with one of its two
\* bytes accepted and its cell pending.
C14_Witness ==
    /\ AfterWriteCallback
    /\ Len(wlog.bufs) = 2 /\ wlog.bufs[1] = "aa" /\ wlog.bufs[2] = "bb"
    /\ Wrote(wlog.cells[1]) /\ ResolvedValue(wlog.cells[1]) = ToString(2)
    /\ wlog.wire = "aab" /\ ~cells[wlog.cells[2]].isDone

(***************************************************************************)
(* A Websocket under its callers and its peer: send and close, launched    *)
(* with async or run by await, recv, the peer's frames arriving, the       *)
(* socket writing out what was sent, and the dispatcher.                   *)
(***************************************************************************)
\* The payloads of the first and of the second send: bytes of their own.
SendData(k, length) ==
    IF k = 1 THEN SubSeq("abcdef", 1, length) ELSE SubSeq("uvwxyz", 1, length)

\* What the k-th send is given: a str that fits one frame, or bytes of the
\* greatest length.
SendPayloads(k) == {Str(SendData(k, Min(maxSize, MaxPayload))), Bytes(SendData(k, MaxPayload))}

\* The frames the peer sends.
PeerFrames ==
    {Frame(OP_TEXT, TRUE, "m"), Frame(OP_TEXT, FALSE, "m"),
     Frame(OP_CONT, FALSE, "n"), Frame(OP_CONT, TRUE, "o"),
     Frame(OP_CLOSE, TRUE, packClose(Reason("1000", "OK"))),
     Frame(OP_CLOSE, TRUE, packClose(Reason("0999", "")))}

CurrentWsWorld == WsWorld(ws, wslog, cells, handleQueue, nextId)

\* A call on the engine, or an event of its socket, that came out as w.
WsStep(name, w) ==
    /\ ops < budget
    /\ ws' = w.ws
    /\ wslog' = w.log
    /\ cells' = w.cells
    /\ handleQueue' = w.hq
    /\ nextId' = nextId + (Len(w.hq) - Len(handleQueue))
    /\ delivered' = delivered \o w.calls
    /\ lastStep' = CallInfo(name, TRUE)
    /\ ops' = ops + 1
    /\ UNCHANGED <<lowQueue, heap, handles, poller, now, invoked, queuedAt, budget,
                   queue, qlog, reader, rlog, writer, wlog, clog, barrier, blog, recurring, reclog, evfut, evq, elog, sock, slog, greens, awlog, task>>

\* The name of the next task of a kind.
NextTask(kind) == kind \o ToString(Cardinality(DOMAIN ws.tasks))

\* The world with a new _Task t around the coroutine of a call.
Spawned(w, t, kind, data, hold) ==
    [w EXCEPT !.cells = Append(@, Future),
              !.ws.tasks = @ @@ (t :> [Task(kind, Len(w.cells) + 1, data) EXCEPT !.hold = hold]),
              !.log.called = IF kind = "send" THEN Append(@, t) ELSE @,
              !.log.closers = IF kind = "close" THEN Append(@, [task |-> t, state |-> w.ws.state,
                                                                 wire |-> Len(w.log.wire)])
                              ELSE @]

\* async(gen): dispatcher.scheduleHighPriority(task.send, None)
Launched(w, t) ==
    [w EXCEPT !.hq = scheduleHighPriority(@, Entry(NewId(w), "send", 0, 0, t, {}, None))]

\* async(websocket.send(data))
AsyncSend ==
    /\ Len(wslog.called) < MaxSends
    /\ \E data \in SendPayloads(Len(wslog.called) + 1) :
          WsStep("asyncSend",
                 Launched(Spawned(CurrentWsWorld, NextTask("send"), "send", data, NoReason),
                          NextTask("send")))

\* await(websocket.send(data)): the task is run at once, as far as it goes.
AwaitSend ==
    /\ Len(wslog.called) < MaxSends
    /\ \E data \in SendPayloads(Len(wslog.called) + 1) :
          WsStep("awaitSend",
                 wsResume(Spawned(CurrentWsWorld, NextTask("send"), "send", data, NoReason),
                          NextTask("send"), "send", None))

\* await(websocket.close(timeout, reason)) with the default reason.
Close ==
    /\ Len(wslog.closers) < MaxCloses
    /\ WsStep("close",
              wsResume(Spawned(CurrentWsWorld, NextTask("close"), "close", Bytes(""),
                               Reason("1000", "OK")),
                       NextTask("close"), "send", None))

\* websocket.recv()
Recv ==
    /\ Len(ws.dataFrameQueue.getwaiters) < 1
    /\ WsStep("recv",
              IF ws.state = STATE_OPEN THEN xGet(CurrentWsWorld)
              ELSE [CurrentWsWorld EXCEPT !.cells =
                        Append(@, [Future EXCEPT !.isDone = TRUE, !.error = "WebsocketClosed",
                                                  !.errorAccessed = "False"])])

\* The peer's next frame has arrived whole: the Future of the recv in
\* progress is resolved.
FrameArrives ==
    /\ ws.socket.readWaiter # 0
    /\ \E f \in PeerFrames :
          WsStep("frame",
                 wsApply([CurrentWsWorld EXCEPT !.ws.arrived = f, !.ws.socket.readWaiter = 0],
                         setResult(cells, handleQueue, ws.socket.readWaiter, None, nextId)))

\* The writer's release at the end of a callback that left nothing to
\* write: releaseFast resumes the task waiting in socket.close().
socketDrained(w) ==
    IF w.ws.socket.pendingWrites = <<>> /\ w.ws.socket.closer # None
    THEN wsResume([w EXCEPT !.ws.socket.state = SOCKET_CLOSED, !.ws.socket.closer = None],
                  w.ws.socket.closer, "send", None)
    ELSE w

\* The socket has written out the oldest send: its Future is resolved.
SocketWritten ==
    /\ ws.socket.pendingWrites # <<>>
    /\ WsStep("written",
              socketDrained(wsApply([CurrentWsWorld EXCEPT !.ws.socket.pendingWrites = Tail(@)],
                                     setResult(cells, handleQueue, Head(ws.socket.pendingWrites),
                                               None, nextId))))

\* Websocket(socket, queueLength = queueLength): the main loop is launched
\* with async.
InitWs ==
    /\ handleQueue = <<Entry(1, "send", 0, 0, "main", {}, None)>>
    /\ lowQueue = <<>> /\ heap = {}
    /\ handles = EmptyMap /\ poller = EmptyMap
    /\ now = 0
    /\ cells = <<DoneCell, Future>>
    /\ queue = Queue(-1) /\ qlog = [puts |-> <<>>, putCells |-> <<>>, gets |-> <<>>]
    /\ reader = ReadWrapperFields(0, 0) /\ rlog = NoReads
    /\ writer = WriteWrapper /\ wlog = NoWrites
    /\ ws = Websocket(2, queueLength, maxSize) /\ wslog = NoFrames
    /\ clog = NoCalls
    /\ barrier = Barrier
    /\ blog = NoReleases
    /\ recurring = RecurringEvent
    /\ reclog = <<>>
    /\ evfut = NoEventFuture
    /\ evq = NoEventQueue
    /\ elog = <<>>
    /\ sock = NoSocket
    /\ slog = NoSocketCalls
    /\ greens = NoGreenlets
    /\ awlog = NoAwaits
    /\ task = NoTask
    /\ invoked = <<>> /\ delivered = <<>>
    /\ queuedAt = EmptyMap
    /\ lastStep = NoStep
    /\ nextId = 2
    /\ ops = 0
    /\ budget = MaxWsOps

NextWs ==
    \/ AsyncSend
    \/ AwaitSend
    \/ Close
    \/ Recv
    \/ FrameArrives
    \/ SocketWritten
    \/ runNextHandle

SpecWs == InitWs /\ [][NextWs]_vars

\* The positions on the wire of the frames the task t wrote.
FramesOf(t) == {p \in 1..Len(wslog.wire) : wslog.wire[p].by = t}

\* Every frame of the send that comes first in order is on the wire before
\* any frame of a send that comes later in it.
Serialized(order) ==
    \A i, j \in 1..Len(order) :
        i < j => \A p \in FramesOf(order[i]), q \in FramesOf(order[j]) : p < q

\* The frames of one send are not parted by a frame of another send.
NotInterleaved ==
    \A p, q, r \in 1..Len(wslog.wire) :
        (p < q /\ q < r /\ wslog.wire[p].by = wslog.wire[r].by
           /\ ws.tasks[wslog.wire[p].by].kind = "send" /\ ws.tasks[wslog.wire[q].by].kind = "send")
        => wslog.wire[q].by = wslog.wire[p].by

\* C15: the frames of two sends are on the wire in the order of the two send
\* calls, however the tasks were started, and the fragments of one message
\* are not interleaved with the frames of another.
C15_CallOrder == Serialized(wslog.called) /\ NotInterleaved

\* C15 amended: the frames of two sends are on the wire in the order in which
\* the two send coroutines began to run, a send writes its first frame only
\* when the sends begun before it have ended, and the fragments of one
\* message are not interleaved with the frames of another.
C15_StartOrder ==
    /\ Serialized(wslog.started)
    /\ NotInterleaved
    /\ \A i, j \in 1..Len(wslog.started) :
          (i < j /\ FramesOf(wslog.started[j]) # {})
          => ws.tasks[wslog.started[i]].pc \in {"done", "failed"}

\* Two sends were launched with async before either ran, the one called
\* second began first and has written its frame, and the one called first
\* has written two fragments after it.
C15_Witness ==
    /\ Len(wslog.called) = 2
    /\ wslog.started = <<wslog.called[2], wslog.called[1]>>
    /\ FramesOf(wslog.called[2]) # {} /\ Cardinality(FramesOf(wslog.called[1])) >= 2

\* The payloads of the frames t wrote among the first n on the wire, joined.
RECURSIVE Written(_, _)
Written(t, n) ==
    IF n = 0 THEN ""
    ELSE Written(t, n - 1) \o (IF wslog.wire[n].by = t THEN wslog.wire[n].frame.data ELSE "")

\* The send tasks that have returned, having been given more than maxSize
\* bytes.
LongSends ==
    {t \in DOMAIN ws.tasks : /\ ws.tasks[t].kind = "send" /\ ws.tasks[t].pc = "done"
                             /\ Len(ws.tasks[t].data.data) > ws.maxSize}

C16_Shape(t) ==
    \A p \in FramesOf(t) :
        /\ wslog.wire[p].frame.opcode =
              (IF \A q \in FramesOf(t) : p <= q THEN dataOpcode(ws.tasks[t].data) ELSE OP_CONT)
        /\ wslog.wire[p].frame.final = (\A q \in FramesOf(t) : q <= p)
        /\ Len(wslog.wire[p].frame.data) <= ws.maxSize

\* C16: a send of more than maxSize bytes writes a first frame with the data
\* opcode and FIN = 0, then continuation frames with FIN = 0, then one
\* continuation frame with FIN = 1; no frame carries more than maxSize bytes
\* and the payloads of the frames, joined in order, are the bytes sent.
C16_Fragmentation ==
    \A t \in LongSends :
        /\ Cardinality(FramesOf(t)) >= 2
        /\ C16_Shape(t)
        /\ Written(t, Len(wslog.wire)) = ws.tasks[t].data.data

\* The main loop has handled one more frame in this step.
FrameHandled == Len(wslog'.handled) = Len(wslog.handled) + 1

\* The frame handled in this step, with the state and the builder it found.
Handled == wslog'.handled[Len(wslog'.handled)]

\* The message the builder holds once the fragment data is added to it.
Assembled(building, bits, data) ==
    IF building = BUILD_TEXT THEN Str(Join(bits) \o data) ELSE Bytes(Join(bits) \o data)

\* The last fragment of a message arrives at an open engine.
LastFragment ==
    /\ FrameHandled /\ Handled.state = STATE_OPEN
    /\ Handled.building # BUILD_NOTHING /\ Handled.frame.opcode = OP_CONT /\ Handled.frame.final

\* A data frame the builder cannot take arrives at an open engine.
Misplaced ==
    /\ FrameHandled /\ Handled.state = STATE_OPEN
    /\ \/ Handled.building = BUILD_NOTHING /\ Handled.frame.opcode = OP_CONT
       \/ Handled.building # BUILD_NOTHING /\ Handled.frame.opcode \in {OP_TEXT, OP_BINARY}

\* C17: when the final continuation frame of a fragmented message is handled,
\* the fragments joined in arrival order (decoded if text) are passed once to
\* the incoming queue, the builder returns to nothing and the engine stays
\* open; a continuation frame with no builder active, or a text or binary
\* frame with one active, is a protocol error (close code 1002).
C17_Assembly ==
    [][/\ LastFragment =>
            /\ wslog'.put = Append(wslog.put, Assembled(Handled.building, Handled.bits,
                                                        Handled.frame.data))
            /\ ws'.buildWhat = BUILD_NOTHING /\ ws'.buildBits = <<>>
            /\ ws'.state = STATE_OPEN
       /\ Misplaced =>
            /\ ws'.state = STATE_ERROR
            /\ ws'.closingData = ClosingData(CLOSE_BY_ERROR, NoReason, Reason("1002", ""))
            /\ wslog'.put = wslog.put]_vars

\* The second half alone: a misplaced data frame fails the connection with 1002.
C17_ProtocolError ==
    [][Misplaced =>
            /\ ws'.state = STATE_ERROR
            /\ ws'.closingData = ClosingData(CLOSE_BY_ERROR, NoReason, Reason("1002", ""))
            /\ wslog'.put = wslog.put]_vars

\* The frame handled in this step is a close frame with a valid code and
\* reason, read while the engine was open.
RemoteCloseRead ==
    /\ FrameHandled /\ Handled.state = STATE_OPEN
    /\ Handled.frame.opcode = OP_CLOSE /\ parseCloseData(Handled.frame.data).ok

\* The write of the answering close frame is over in this step.
RemoteCloseAnswered ==
    /\ ws.tasks["main"].pc = "replyClose" /\ ws'.tasks["main"].pc # "replyClose"

\* The reason triple of a close the peer began with the close frame last
\* handled.
RemoteTriple(log) ==
    ClosingData(CLOSE_BY_REMOTE, NoReason,
                parseCloseData(log.handled[Len(log.handled)].frame.data).reason)

\* The close() calls made after a close the peer began was carried out.
LateClosers ==
    {k \in 1..Len(wslog.closers) :
        wslog.closers[k].state = STATE_CLOSED /\ ws.closingData.by = CLOSE_BY_REMOTE}

\* The frames a task has written.
WrittenBy(t) == {k \in 1..Len(wslog.wire) : wslog.wire[k].by = t}

\* C18: when the receive loop reads a close frame with a valid code and
\* reason while the engine is open, it writes one close frame with the same
\* payload; when that write is over the reason triple is (by_remote, None,
\* (code, reason)), the engine is closed and the socket is no longer
\* connected; a close() made afterwards writes no frame and, when it
\* returns, returns that triple.
C18_RemoteClose ==
    /\ [][/\ RemoteCloseRead =>
               wslog'.wire = Append(wslog.wire,
                                    [by |-> "main",
                                     frame |-> Frame(OP_CLOSE, TRUE, Handled.frame.data)])
          /\ RemoteCloseAnswered =>
               /\ ws'.closingData = RemoteTriple(wslog)
               /\ ws'.state = STATE_CLOSED
               /\ ws'.socket.state # SOCKET_CONNECTED]_vars
    /\ [](\A k \in LateClosers :
               /\ WrittenBy(wslog.closers[k].task) = {}
               /\ \A j \in (wslog.closers[k].wire + 1)..Len(wslog.wire) :
                      wslog.wire[j].frame.opcode # OP_CLOSE
               /\ ws.tasks[wslog.closers[k].task].pc \in {"joining", "done"}
               /\ ws.tasks[wslog.closers[k].task].pc = "done" =>
                      /\ cells[ws.tasks[wslog.closers[k].task].cell].isDone
                      /\ cells[ws.tasks[wslog.closers[k].task].cell].result =
                             RemoteTriple(wslog))

\* close() was called after the peer's close frame with code 1000 and reason
\* "OK" was answered, and returned (by_remote, None, (1000, "OK")).
C18_Witness ==
    /\ LateClosers # {}
    /\ \A k \in LateClosers :
          /\ ws.tasks[wslog.closers[k].task].pc = "done"
          /\ cells[ws.tasks[wslog.closers[k].task].cell].result =
                 ClosingData(CLOSE_BY_REMOTE, NoReason, Reason("1000", "OK"))
    /\ ws.state = STATE_CLOSED /\ ws.socket.state = SOCKET_CLOSED
    /\ \E k \in 1..Len(wslog.wire) :
          wslog.wire[k] = [by |-> "main",
                           frame |-> Frame(OP_CLOSE, TRUE, packClose(Reason("1000", "OK")))]

\* The close() calls made on an open engine.
LocalClosers == {k \in 1..Len(wslog.closers) : wslog.closers[k].state = STATE_OPEN}

\* The write of the close frame of the close() call k is over.
CloseFrameWritten(k) == ws.tasks[wslog.closers[k].task].pc \notin {"new", "sendClose"}

\* A timeout of the engine is waiting in the dispatcher's timer heap.
TimeoutScheduled == \E e \in heap : e.h = "closeTimeout"

\* C19: close(timeout, reason) on an open engine moves it to closing and
\* writes one close frame carrying the code and the reason; once that write
\* is over close() has not failed, and the engine is closed or its timeout
\* is scheduled with the dispatcher, so that an engine whose peer never
\* answers is closed, with initiator by_local_timeout, when the timeout has
\* elapsed.
C19_LocalClose ==
    \A k \in LocalClosers :
        /\ lastStep.op = "close" => ws.state = STATE_CLOSING
        /\ \A j \in WrittenBy(wslog.closers[k].task) :
               /\ j = wslog.closers[k].wire + 1
               /\ wslog.wire[j].frame =
                      Frame(OP_CLOSE, TRUE, packClose(ws.tasks[wslog.closers[k].task].hold))
        /\ CloseFrameWritten(k) =>
               /\ ws.tasks[wslog.closers[k].task].pc # "failed"
               /\ ws.state = STATE_CLOSED \/ TimeoutScheduled

\* The first half alone: the engine is closing after the call and the one
\* frame close() writes is the close frame with its code and reason.
C19_CloseFrame ==
    \A k \in LocalClosers :
        /\ lastStep.op = "close" =>
               /\ ws.state = STATE_CLOSING
               /\ WrittenBy(wslog.closers[k].task) = {wslog.closers[k].wire + 1}
        /\ \A j \in WrittenBy(wslog.closers[k].task) :
               /\ j = wslog.closers[k].wire + 1
               /\ wslog.wire[j].frame =
                      Frame(OP_CLOSE, TRUE, packClose(ws.tasks[wslog.closers[k].task].hold))

\* C34: while the main loop is failing the connection (state error), the
\* initiator recorded is by_error, the main loop has written a close frame
\* carrying the status code of the error met (1002 for a protocol error,
\* 1011 for an unexpected one), and the main loop has not ended with an
\* exception: it goes on until the engine is closed.
C34_ErrorCloseCode ==
    ws.state = STATE_ERROR =>
        /\ ws.closingData.by = CLOSE_BY_ERROR
        /\ ws.closingData.remote.code \in {"1002", "1011"}
        /\ \E j \in WrittenBy("main") :
              wslog.wire[j].frame = Frame(OP_CLOSE, TRUE, packClose(ws.closingData.remote))
        /\ ws.tasks["main"].pc # "failed"

\* C38: once the main loop has ended, however it ended, no cell returned by
\* recv() is left waiting in dataFrameQueue, and such a cell left the queue
\* failed with WebsocketClosed or resolved with a message; a recv() on an
\* engine that is not open returns a cell failed with WebsocketClosed.
C38_NoStrandedRecv ==
    /\ ws.tasks["main"].pc \in {"done", "failed"} =>
          \A k \in 1..Len(ws.dataFrameQueue.getwaiters) :
              cells[ws.dataFrameQueue.getwaiters[k]].isDone
    /\ (lastStep.op = "recv" /\ ws.state # STATE_OPEN) =>
          /\ cells[Len(cells)].isDone /\ cells[Len(cells)].error = "WebsocketClosed"

\* The socket's write of the oldest send fails (the peer reset the
\* connection): the writer's callback fails the Future with the error of
\* the write and, nothing being left to write, completes a pending close.
SocketBroken ==
    /\ ws.socket.pendingWrites # <<>>
    /\ WsStep("broken",
              socketDrained(wsApply([CurrentWsWorld EXCEPT !.ws.socket.pendingWrites = Tail(@)],
                                     setError(cells, handleQueue, Head(ws.socket.pendingWrites),
                                              "BrokenPipeError", nextId))))

NextWsBroken ==
    \/ Close
    \/ Recv
    \/ FrameArrives
    \/ SocketWritten
    \/ SocketBroken
    \/ runNextHandle

\* The engine with a peer and a socket whose writes can fail.
SpecWsBroken == InitWs /\ [][NextWsBroken]_vars

\* C40: once the engine is closed it stays closed, and the reason triple it
\* recorded is not changed again.
C40_ClosedIsAbsorbing ==
    [][ws.state = STATE_CLOSED =>
          (ws'.state = STATE_CLOSED /\ ws'.closingData = ws.closingData)]_vars

(***************************************************************************)
(* The Future specification with the ends of a cell's life: the program    *)
(* calls the setters, attaches callbacks, calls getResult on completed     *)
(* cells, and drops cells, whose __del__ the collector then runs.          *)
(***************************************************************************)
\* The cells that were destroyed.
Destroyed == {clog.dels[k].cell : k \in 1..Len(clog.dels)}

\* The dispatcher's main queue holds a bound method of cell c, or the
\* callback call of one of its setters.
Referenced(c) == \E k \in 1..Len(handleQueue) : handleQueue[k].cell = c

\* A call of the program on a cell it still holds.
OnLiveCell(A) == A /\ lastStep'.cell \notin Destroyed

\* future.getResult(), which its callers make on completed cells.
GetResult ==
    /\ ops < budget
    /\ \E c \in (1..Len(cells)) \ Destroyed :
          /\ cells[c].isDone
          /\ cells' = getResult(cells, c).cells
          /\ clog' = [clog EXCEPT !.got = Append(@, c)]
          /\ lastStep' = [CallInfo("getResult", getResult(cells, c).raised = None)
                             EXCEPT !.cell = c]
    /\ ops' = ops + 1
    /\ UNCHANGED <<handleQueue, lowQueue, heap, handles, poller, now, invoked, delivered,
                   queuedAt, nextId, budget, queue, qlog, reader, rlog, writer, wlog, ws, wslog, barrier, blog, recurring, reclog, evfut, evq, elog, sock, slog, greens, awlog, task>>

\* The last reference to a cell goes and the cell is destroyed.
Del ==
    /\ ops < budget
    /\ \E c \in (1..Len(cells)) \ Destroyed :
          /\ ~Referenced(c)
          /\ cells' = del(cells, c).cells
          /\ clog' = [clog EXCEPT !.dels = Append(@, [cell |-> c,
                                                       raised |-> del(cells, c).raised])]
          /\ lastStep' = [CallInfo("del", del(cells, c).raised = None) EXCEPT !.cell = c]
    /\ ops' = ops + 1
    /\ UNCHANGED <<handleQueue, lowQueue, heap, handles, poller, now, invoked, delivered,
                   queuedAt, nextId, budget, queue, qlog, reader, rlog, writer, wlog, ws, wslog, barrier, blog, recurring, reclog, evfut, evq, elog, sock, slog, greens, awlog, task>>

InitDel ==
    /\ handleQueue = <<>> /\ lowQueue = <<>> /\ heap = {}
    /\ handles = EmptyMap /\ poller = EmptyMap
    /\ now = 0 /\ cells = [c \in 1..NumCells |-> Future]
    /\ invoked = <<>> /\ delivered = <<>> /\ queuedAt = EmptyMap
    /\ lastStep = NoStep /\ nextId = 1 /\ ops = 0 /\ budget = MaxDelOps
    /\ NoObjects

NextDel ==
    \/ OnLiveCell(SetResult) \/ OnLiveCell(SetResultLate) \/ OnLiveCell(SetResultFast)
    \/ OnLiveCell(SetError) \/ OnLiveCell(SetErrorLate) \/ OnLiveCell(SetErrorFast)
    \/ OnLiveCell(SetCallback)
    \/ GetResult \/ Del \/ runNextHandle

SpecDel == InitDel /\ [][NextDel]_vars

\* The error of cell c was raised to its caller by getResult.
Retrieved(c) == \E k \in 1..Len(clog.got) : clog.got[k] = c

\* The error of cell c was thrown into its callback: by the scheduled
\* __cbError, or at once by setErrorFast.
Aborted(c) ==
    \/ \E k \in 1..Len(invoked) : invoked[k].kind = "throw" /\ invoked[k].cell = c
    \/ \E k \in 1..Len(delivered) : delivered[k].how = "throw" /\ delivered[k].cell = c

\* C20: the destruction of a cell raises the cell's error exactly when the
\* cell holds an error that was neither retrieved through getResult nor
\* thrown into a callback; the destruction of a cell that is pending, holds
\* a result, or holds an error observed in one of the two ways raises
\* nothing.
C20_SilentError ==
    \A k \in 1..Len(clog.dels) :
        IF /\ cells[clog.dels[k].cell].error # None
           /\ ~Retrieved(clog.dels[k].cell) /\ ~Aborted(clog.dels[k].cell)
        THEN clog.dels[k].raised = cells[clog.dels[k].cell].error
        ELSE clog.dels[k].raised = None

\* The error of one cell was retrieved with getResult, and the destruction
\* of another cell, whose error nobody saw, has just raised that error.
C20_Witness ==
    /\ lastStep.op = "del" /\ ~lastStep.ok
    /\ clog.dels[Len(clog.dels)].cell = lastStep.cell
    /\ clog.dels[Len(clog.dels)].raised = cells[lastStep.cell].error
    /\ cells[lastStep.cell].error \in Errors
    /\ \E c \in 1..Len(cells) : c # lastStep.cell /\ cells[c].error # None /\ Retrieved(c)

\* C21: a Future holds at most one callback: setCallback on a cell that
\* already has a callback fails and leaves the first callback in place, so
\* the waiter that attached first is the one resumed when the cell resolves.
C21_SingleCallback ==
    [][(lastStep'.op = "setCallback" /\ ops' = ops + 1 /\ cells[lastStep'.cell].cb # None) =>
           /\ ~lastStep'.ok
           /\ cells'[lastStep'.cell].cb = cells[lastStep'.cell].cb]_vars

\* runNextHandle starts with the main queue empty and the earliest deadline
\* of the heap equal to the time.
DueNow == handleQueue = <<>> /\ heap # {} /\ MinKey(heap) = now

\* C29: when runNextHandle finds the main queue empty and the earliest
\* deadline equal to the time (delta = 0), the timer counts as expired: the
\* step moves it to the main queue and invokes a timer due at that time,
\* without polling and without moving a low-priority entry.
C29_DueNowExpired ==
    [][(RunNextStep /\ DueNow) =>
           /\ lastStep'.ok
           /\ lastStep'.polled = "no" /\ lastStep'.movedLow = 0
           /\ \E e \in heap : e.key = now /\ e.id \in lastStep'.drained
           /\ \E e \in heap : e.key = now /\ e.id = lastStep'.ran]_vars

\* C35: every runNextHandle call finds the main queue non-empty at its pop
\* and invokes exactly one callback, whatever the timers, the low-priority
\* entries, the registered descriptors and the poll gave; it never fails on
\* an empty main queue.
C35_AlwaysSomethingToRun ==
    [][RunNextStep => (lastStep'.ok /\ Len(invoked') = Len(invoked) + 1)]_vars

\* runNextHandle starts with the main queue empty, no timer expired and a
\* low-priority entry waiting.
LowTurn == handleQueue = <<>> /\ readyTime(heap, now) >= 0 /\ lowQueue # <<>>

\* The main queue as the first half of the step left it: the entry the step
\* invoked, then what is still queued.
AfterPoll == <<invoked'[Len(invoked')]>> \o handleQueue'

\* The entry e calls a registered handle with a mask the handle accepts.
ReadinessCallback(e) ==
    /\ e.kind = "fd" /\ e.mask # {}
    /\ \E fd \in DOMAIN handles : \E m \in DOMAIN handles[fd] :
          handles[fd][m] = e.h /\ e.mask \subseteq (m \cup errorCheckingMask)

\* C30: when runNextHandle finds the main queue empty, no timer expired and
\* the low-priority queue non-empty, it polls without blocking (no time
\* passes, no timer moves), queues a callback for the readiness events it
\* found, and moves exactly one low-priority entry, the oldest, to the tail
\* of the main queue behind them; the other low-priority entries stay queued
\* in order.
C30_LowNeverBlocks ==
    [][(RunNextStep /\ LowTurn) =>
           /\ lastStep'.ok /\ lastStep'.polled = "fast"
           /\ now' = now /\ heap' = heap
           /\ Len(invoked') = Len(invoked) + 1
           /\ lowQueue' = Tail(lowQueue)
           /\ AfterPoll[Len(AfterPoll)] = Head(lowQueue)
           /\ \A k \in 1..(Len(AfterPoll) - 1) : ReadinessCallback(AfterPoll[k])
           /\ lastStep'.events <=> Len(AfterPoll) > 1]_vars

\* A step has just polled with a low-priority entry waiting, found an event
\* and run its callback; the low-priority entry it moved is next.
C30_Witness ==
    /\ lastStep.op = "runNext" /\ lastStep.polled = "fast" /\ lastStep.events
    /\ lastStep.ranKind = "fd"
    /\ handleQueue # <<>>
    /\ handleQueue[Len(handleQueue)].kind = "low"
    /\ handleQueue[Len(handleQueue)].id = lastStep.movedLow

(***************************************************************************)
(* A Barrier on the dispatcher: waiters attach themselves, the Barrier is  *)
(* released (a second time too), and the dispatcher runs what release      *)
(* scheduled.                                                              *)
(***************************************************************************)
\* The k-th waiter to attach itself.
BarrierWaiter(k) == "w" \o ToString(k)

\* A call on the Barrier that came out as out.
BarrierStep(name, out, attached) ==
    /\ ops < budget
    /\ barrier' = out.barrier
    /\ handleQueue' = out.hq
    /\ delivered' = delivered \o out.calls
    /\ nextId' = nextId + (Len(out.hq) - Len(handleQueue))
    /\ blog' = IF name = "setCallback" THEN [blog EXCEPT !.attached = attached]
               ELSE [blog EXCEPT !.releases = @ + 1,
                                 !.before = IF out.ok THEN Len(blog.attached) ELSE @]
    /\ lastStep' = CallInfo(name, out.ok)
    /\ ops' = ops + 1
    /\ UNCHANGED <<lowQueue, heap, handles, poller, now, cells, invoked, queuedAt, budget,
                   queue, qlog, reader, rlog, writer, wlog, ws, wslog, clog, recurring, reclog, evfut, evq, elog, sock, slog, greens, awlog, task>>

\* barrier.setCallback(task), as a task that yields the Barrier does.
Attach ==
    /\ Len(blog.attached) < MaxWaiters
    /\ BarrierStep("setCallback",
                   Released(TRUE, Barrier_setCallback(barrier,
                                                      BarrierWaiter(Len(blog.attached) + 1)),
                            handleQueue, <<>>),
                   Append(blog.attached, BarrierWaiter(Len(blog.attached) + 1)))

BarrierRelease == BarrierStep("release", Barrier_release(barrier, handleQueue, nextId), <<>>)

BarrierReleaseFast == BarrierStep("releaseFast", Barrier_releaseFast(barrier, handleQueue), <<>>)

InitBarrier ==
    /\ handleQueue = <<>> /\ lowQueue = <<>> /\ heap = {}
    /\ handles = EmptyMap /\ poller = EmptyMap
    /\ now = 0 /\ cells = <<>>
    /\ invoked = <<>> /\ delivered = <<>> /\ queuedAt = EmptyMap
    /\ lastStep = NoStep /\ nextId = 1 /\ ops = 0 /\ budget = MaxBarrierOps
    /\ NoObjects

NextBarrier == Attach \/ BarrierRelease \/ BarrierReleaseFast \/ runNextHandle

SpecBarrier == InitBarrier /\ [][NextBarrier]_vars

\* The calls of w.send scheduled or made.
Resumed(w) ==
    Cardinality({k \in 1..Len(handleQueue) : handleQueue[k].h = w})
      + Cardinality({k \in 1..Len(delivered) : delivered[k].h = w})

\* C26: every callback attached to a Barrier before its release is resumed
\* exactly once, with no value, by the release, however many are attached
\* (none is resumed before it, and one attached later is not resumed); a
\* second release, after release or releaseFast, fails and resumes no
\* callback again.
C26_BarrierRelease ==
    /\ \A k \in 1..Len(blog.attached) :
          Resumed(BarrierWaiter(k)) = IF blog.releases >= 1 /\ k <= blog.before THEN 1 ELSE 0
    /\ \A k \in 1..Len(handleQueue) : handleQueue[k].kind = "send" /\ handleQueue[k].val = None
    /\ \A k \in 1..Len(delivered) : delivered[k].how = "send" /\ delivered[k].val = None
    /\ (lastStep.op \in {"release", "releaseFast"}) => (lastStep.ok <=> blog.releases = 1)

\* A Barrier with two waiters or more was released, each waiter was resumed,
\* and a second release has just failed.
C26_Witness ==
    /\ blog.before >= 2 /\ blog.releases = 2
    /\ lastStep.op \in {"release", "releaseFast"} /\ ~lastStep.ok
    /\ \A k \in 1..blog.before :
          \E j \in 1..Len(delivered) : delivered[j].h = BarrierWaiter(k)

(***************************************************************************)
(* A RecurringEvent on the dispatcher: begin and stop are called while     *)
(* time passes and the dispatcher runs the timer entries.                  *)
(***************************************************************************)
\* A call on the RecurringEvent that came out as out.
RecurStep(name, out) ==
    /\ ops < budget
    /\ recurring' = out.recurring
    /\ heap' = out.heap
    /\ nextId' = nextId + (Cardinality(out.heap) - Cardinality(heap))
    /\ reclog' = IF out.ok THEN Append(reclog, name) ELSE reclog
    /\ lastStep' = CallInfo(name, out.ok)
    /\ ops' = ops + 1
    /\ UNCHANGED <<handleQueue, lowQueue, handles, poller, now, cells, invoked, delivered,
                   queuedAt, budget, queue, qlog, reader, rlog, writer, wlog, ws, wslog, clog,
                   barrier, blog, evfut, evq, elog, sock, slog, greens, awlog, task>>

Begin == RecurStep("begin", begin(recurring, heap, now, nextId))

Stop == RecurStep("stop", stop(recurring, heap))

InitRecur ==
    /\ handleQueue = <<>> /\ lowQueue = <<>> /\ heap = {}
    /\ handles = EmptyMap /\ poller = EmptyMap
    /\ now = 0 /\ cells = <<>>
    /\ invoked = <<>> /\ delivered = <<>> /\ queuedAt = EmptyMap
    /\ lastStep = NoStep /\ nextId = 1 /\ ops = 0 /\ budget = MaxRecurOps
    /\ NoObjects

NextRecur == Begin \/ Stop \/ ScheduleLow \/ Tick \/ runNextHandle

SpecRecur == InitRecur /\ [][NextRecur]_vars

\* C27: once stop() has been called on a running RecurringEvent the user
\* callback is not called again, although a timer entry of the event is
\* still scheduled, unless begin() is called again before that entry fires.
C27_StopIsImmediate ==
    \A i, j \in 1..Len(reclog) :
        (i < j /\ reclog[i] = "stop" /\ reclog[j] = "call") =>
            \E k \in (i + 1)..(j - 1) : reclog[k] = "begin"

(***************************************************************************)
(* An EventFuture and an EventQueue on one descriptor: the EventFuture     *)
(* waits for EPOLLOUT (as connect does), the EventQueue for EPOLLIN (as    *)
(* listen does).  The program makes calls on them while the dispatcher     *)
(* polls and calls their handles.                                          *)
(***************************************************************************)
\* A call on the EventFuture or the EventQueue that came out as w.
IoStep(name, w) ==
    /\ ops < budget
    /\ handleQueue' = w.hq
    /\ cells' = w.cells
    /\ handles' = w.handles /\ poller' = w.poller
    /\ evfut' = w.evfut /\ evq' = w.evq
    /\ delivered' = delivered \o w.calls
    /\ nextId' = nextId + (Len(w.hq) - Len(handleQueue))
    /\ lastStep' = [CallInfo(name, w.ok) EXCEPT !.cell = w.ret]
    /\ ops' = ops + 1
    /\ UNCHANGED <<lowQueue, heap, now, invoked, queuedAt, budget, queue, qlog, reader, rlog,
                   writer, wlog, ws, wslog, clog, barrier, blog, recurring, reclog, elog, sock, slog, greens, awlog, task>>

CurrentIoWorld == IoWorld(evfut, evq, cells, handleQueue, handles, poller, nextId)

\* EventFuture(fileNumber, EPOLLOUT, handle)
NewEventFuture ==
    /\ evfut.cell = 0
    /\ IoStep("EventFuture", EventFuture(CurrentIoWorld, {OutBit}))

QueueGet == IoStep("get", EventQueue_get(CurrentIoWorld))

QueueClose == IoStep("close", EventQueue_close(CurrentIoWorld))

\* "for item in queue.forceClose(): item.setError(error)"
QueueForceClose ==
    \E error \in {"e2"} : IoStep("forceClose", EventQueue_forceClose(CurrentIoWorld, error))

InitIo ==
    /\ handleQueue = <<>> /\ lowQueue = <<>> /\ heap = {}
    /\ handles = EmptyMap /\ poller = EmptyMap
    /\ now = 0 /\ cells = <<Future>>
    /\ invoked = <<>> /\ delivered = <<>> /\ queuedAt = EmptyMap
    /\ lastStep = NoStep /\ nextId = 1 /\ ops = 0 /\ budget = MaxIoOps
    /\ queue = Queue(-1) /\ qlog = [puts |-> <<>>, putCells |-> <<>>, gets |-> <<>>]
    /\ reader = ReadWrapperFields(0, 0) /\ rlog = NoReads
    /\ writer = WriteWrapper /\ wlog = NoWrites
    /\ ws = NoWebsocket /\ wslog = NoFrames
    /\ clog = NoCalls
    /\ barrier = Barrier
    /\ blog = NoReleases
    /\ recurring = RecurringEvent
    /\ reclog = <<>>
    /\ evfut = NoEventFuture
    /\ evq = EventQueue(IoWorld(NoEventFuture, NoEventQueue, <<>>, <<>>, EmptyMap, EmptyMap, 1)).evq
    /\ elog = <<>>
    /\ sock = NoSocket
    /\ slog = NoSocketCalls
    /\ greens = NoGreenlets
    /\ awlog = NoAwaits
    /\ task = NoTask

NextIo == NewEventFuture \/ QueueGet \/ QueueClose \/ QueueForceClose \/ runNextHandle

SpecIo == InitIo /\ [][NextIo]_vars

\* The handle h is registered for the mask on the descriptor.
Registered(mask, h) ==
    /\ fileNumber \in DOMAIN handles
    /\ mask \in DOMAIN handles[fileNumber]
    /\ handles[fileNumber][mask] = h

\* The last call of a handle was a call of h whose inner handle raised
\* IOEventAbort.
RetriedLast(h) ==
    /\ elog # <<>>
    /\ elog[Len(elog)].h = h /\ elog[Len(elog)].inner = "retry" /\ elog[Len(elog)].fut # 0

\* C23: when the inner handle of an EventFuture raises IOEventAbort, the
\* (fd, mask) registration is in place after the callback returns and the
\* Future is still pending (so that a later event calls the handle again).
C23_RetryKeepsRegistration ==
    RetriedLast("evfut") =>
        /\ elog[Len(elog)].ok
        /\ Registered(evfut.mask, "evfut")
        /\ ~cells[evfut.cell].isDone

\* C24: the (fd, mask) registration of an EventQueue exists if and only if
\* its queue of pending get() Futures is not empty, whatever get, close,
\* forceClose calls and handle calls (value, error, IOEventAbort) were made.
C24_RegisteredIffWaiting ==
    Registered({InBit}, "evq") <=> (evq.queue # <<>>)

\* C33: close() returns the closeBarrier of the EventQueue, the first time
\* and every time after; a close() on a queue that is closing already
\* leaves the Barrier as it was; a get() on a closing queue returns a cell
\* that is failed already and queues nothing.
C33_GracefulClose ==
    [][/\ (lastStep'.op = "close" /\ ops' = ops + 1) =>
             /\ lastStep'.ok /\ lastStep'.cell = evq.closeBarrier
             /\ evq.closing => cells'[evq.closeBarrier] = cells[evq.closeBarrier]
       /\ (lastStep'.op = "get" /\ ops' = ops + 1 /\ evq.closing) =>
             /\ cells'[lastStep'.cell].isDone /\ cells'[lastStep'.cell].error # None
             /\ evq'.queue = evq.queue]_vars

(***************************************************************************)
(* A stream socket, connected or listening: the program calls recv, send,  *)
(* accept, close (launched with async) and forceClose while the dispatcher *)
(* polls the descriptor and calls the handles registered for it.           *)
(***************************************************************************)
\* The cells recv, send and accept returned that are not complete.
PendingCells == {c \in Range(slog.ops) : ~cells[c].isDone}

\* A call on the socket that came out as w; what names the list of the
\* history the call is added to.
SocketStep(name, w, what, error) ==
    /\ ops < budget
    /\ handleQueue' = w.hq
    /\ cells' = w.cells
    /\ handles' = w.handles /\ poller' = w.poller
    /\ reader' = w.reader /\ writer' = w.writer /\ evq' = w.evq
    /\ sock' = w.sock
    /\ delivered' = delivered \o w.calls
    /\ nextId' = nextId + (Len(w.hq) - Len(handleQueue))
    /\ lastStep' = [CallInfo(name, w.ok) EXCEPT !.cell = w.ret]
    /\ slog' = CASE what = "ops" -> [slog EXCEPT !.ops = Append(@, w.ret)]
                 [] what = "closes" ->
                        [slog EXCEPT !.closes = Append(@, [cell |-> w.ret,
                                                            pending |-> PendingCells])]
                 [] OTHER ->
                        [slog EXCEPT !.forced = Append(@, [error |-> error,
                                                            pending |-> PendingCells,
                                                            state |-> sock.state])]
    /\ ops' = ops + 1
    /\ UNCHANGED <<lowQueue, heap, now, invoked, queuedAt, budget, queue, qlog, rlog, wlog,
                   ws, wslog, clog, barrier, blog, recurring, reclog, evfut, elog,
                   greens, awlog, task>>

CurrentSocketWorld ==
    SocketWorld(sock, reader, writer, evq, cells, handleQueue, handles, poller, nextId, NoPlan)

SocketRecv ==
    \E length \in ReadLengths :
        SocketStep("recv", USocket_recv(CurrentSocketWorld, length), "ops", None)

SocketSend ==
    \E length \in 1..MaxWrite :
        SocketStep("send", USocket_send(CurrentSocketWorld,
                                        WriteBuffer(Len(slog.ops) + 1, length)), "ops", None)

SocketAccept == SocketStep("accept", USocket_accept(CurrentSocketWorld), "ops", None)

\* async(socket.close())
SocketClose == SocketStep("close", USocket_close(CurrentSocketWorld), "closes", None)

SocketForceClose ==
    \E error \in {"e2"} :
        SocketStep("forceClose", USocket_forceClose(CurrentSocketWorld, error), "forced", error)

\* The socket after connect (its wrappers built by __connectIt) or after
\* listen (its EventQueue built); doneFuture is cell 1.
SocketBuilt(kind) ==
    IF kind = SOCKET_CONNECTED
    THEN /\ Constructed(ReadWrapper(defaultLowBuffer, defaultHighBuffer))
         /\ cells = <<DoneCell>>
         /\ evq = NoEventQueue
    ELSE /\ reader = ReadWrapperFields(0, 0) /\ handles = EmptyMap /\ poller = EmptyMap
         /\ cells = <<DoneCell, Future>>
         /\ evq = EventQueue(IoWorld(NoEventFuture, NoEventQueue, <<DoneCell>>, <<>>,
                                     EmptyMap, EmptyMap, 1)).evq

InitSocket ==
    /\ handleQueue = <<>> /\ lowQueue = <<>> /\ heap = {}
    /\ \E kind \in {SOCKET_CONNECTED, SOCKET_LISTENING} :
          /\ SocketBuilt(kind)
          /\ sock = [kind |-> kind, state |-> kind, closer |-> NoCloser]
    /\ now = 0
    /\ invoked = <<>> /\ delivered = <<>> /\ queuedAt = EmptyMap
    /\ lastStep = NoStep /\ nextId = 1 /\ ops = 0 /\ budget = MaxSockOps
    /\ queue = Queue(-1) /\ qlog = [puts |-> <<>>, putCells |-> <<>>, gets |-> <<>>]
    /\ rlog = NoReads
    /\ writer = WriteWrapper /\ wlog = NoWrites
    /\ ws = NoWebsocket /\ wslog = NoFrames
    /\ clog = NoCalls
    /\ barrier = Barrier
    /\ blog = NoReleases
    /\ recurring = RecurringEvent
    /\ reclog = <<>>
    /\ evfut = NoEventFuture
    /\ elog = <<>>
    /\ slog = NoSocketCalls
    /\ greens = NoGreenlets
    /\ awlog = NoAwaits
    /\ task = NoTask

NextSocket ==
    \/ SocketRecv \/ SocketSend \/ SocketAccept \/ SocketClose \/ SocketForceClose
    \/ runNextHandle

SpecSocket == InitSocket /\ [][NextSocket]_vars

\* C25: after forceClose(err) on a connected or listening socket every recv,
\* send and accept cell that was pending is resolved with err, the socket is
\* closed and the handle table holds no registration for its descriptor,
\* whatever calls and callbacks came before.
C25_ForceCloseTearsDown ==
    \A k \in 1..Len(slog.forced) :
        slog.forced[k].state \in {SOCKET_CONNECTED, SOCKET_LISTENING} =>
            /\ \A c \in Range(slog.ops) :
                  (c \in slog.forced[k].pending \/ ~cells[c].isDone) =>
                      cells[c].isDone /\ cells[c].error = slog.forced[k].error
            /\ sock.state = SOCKET_CLOSED
            /\ fileNumber \notin DOMAIN handles

\* C28: the cell a call of close() returned is complete only when every
\* accept, send and recv that was pending at the call has been resolved and
\* the socket is closed, for the first close() and for a close() made while
\* an earlier one is draining.
C28_GracefulClose ==
    \A k \in 1..Len(slog.closes) :
        cells[slog.closes[k].cell].isDone =>
            /\ sock.state = SOCKET_CLOSED
            /\ \A c \in slog.closes[k].pending : cells[c].isDone


(***************************************************************************)
(* A main program that creates cells, schedules callbacks with callSoon    *)
(* and callLater, resolves cells and calls await().  A callback resolves   *)
(* one cell, or calls await() on one and ends with whatever it got.  The   *)
(* dispatcher runs only inside await(), in the loop greenlets.  No cell has *)
(* two setter calls made or scheduled for it.                              *)
(***************************************************************************)
AtMain ==
    /\ greens.cur = mainGreenlet
    /\ greens.gs[mainGreenlet].stack = <<mainFrame>>

CurrentGreenWorld == GreenWorld(greens, awlog, cells, handleQueue, nextId, Len(invoked))

\* The step of the main program that leaves the world m.
AwaitStep(name, c, m) ==
    /\ AtMain
    /\ ops < budget
    /\ ~m.over
    /\ cells' = m.cells
    /\ handleQueue' = m.hq
    /\ greens' = m.greens
    /\ awlog' = m.awlog
    /\ nextId' = nextId + (Len(m.hq) - Len(handleQueue))
    /\ lastStep' = [CallInfo(name, TRUE) EXCEPT !.cell = c]
    /\ ops' = ops + 1
    /\ UNCHANGED <<lowQueue, heap, handles, poller, now, invoked, delivered, queuedAt, budget,
                   queue, qlog, reader, rlog, writer, wlog, ws, wslog, clog, barrier, blog,
                   recurring, reclog, evfut, evq, elog, sock, slog, task>>

\* The cells no setter was called on, or is scheduled for.
Unsettled ==
    {c \in 1..Len(cells) :
        /\ ~cells[c].isDone
        /\ \A e \in Range(handleQueue) : ~(e.kind = "setter" /\ e.cell = c)}

\* The callbacks of the program: Future.setResult and the like on a cell,
\* with the value it passes, and a function that calls await() on a cell.
Callbacks(i) ==
    {Entry(i, "setter", 0, c, "setResult", {}, "v1") : c \in Unsettled}
    \cup {Entry(i, "setter", 0, c, "setResultFast", {}, "v2") : c \in Unsettled}
    \cup {Entry(i, "setter", 0, c, "setError", {}, "e1") : c \in Unsettled}
    \cup {Entry(i, "setter", 0, c, "setErrorFast", {}, "e2") : c \in Unsettled}
    \cup {Entry(i, "awaiter", 0, c, None, {}, None) : c \in 1..Len(cells)}

NewFuture ==
    /\ Len(cells) < NumCells
    /\ AwaitStep("Future", Len(cells) + 1,
                 [CurrentGreenWorld EXCEPT !.cells = Append(@, Future),
                                           !.awlog.outcomes = Append(@, NoOutcome)])

CallSoon ==
    \E e \in Callbacks(nextId) :
        AwaitStep("callSoon", e.cell,
                  [CurrentGreenWorld EXCEPT !.hq = scheduleHighPriority(@, e)])

CallLater ==
    \E e \in Callbacks(nextId) :
        AwaitStep("callLater", e.cell,
                  [CurrentGreenWorld EXCEPT !.hq = scheduleMediumPriority(@, e)])

\* The main program resolves a cell itself.
Resolve ==
    \E c \in Unsettled : \E how \in {"setResult", "setError"} :
        AwaitStep(how, c,
                  setterDone(CurrentGreenWorld, how, c, IF how = "setResult" THEN "v1" ELSE "e1",
                             applySetter(how, cells, handleQueue, c,
                                         IF how = "setResult" THEN "v1" ELSE "e1", nextId)))

Await ==
    \E c \in 1..Len(cells) :
        AwaitStep("await", c, await(CurrentGreenWorld, mainGreenlet, c))

\* "while running: dispatcher.runNextHandle()" in the current loop greenlet.
LoopRuns ==
    /\ greens.cur # mainGreenlet
    /\ runNextHandle

InitAwait ==
    /\ handleQueue = <<>> /\ lowQueue = <<>> /\ heap = {}
    /\ handles = EmptyMap /\ poller = EmptyMap
    /\ now = 0 /\ cells = <<>>
    /\ invoked = <<>> /\ delivered = <<>> /\ queuedAt = EmptyMap
    /\ lastStep = NoStep /\ nextId = 1 /\ ops = 0 /\ budget = MaxAwaitOps
    /\ NoObjects

NextAwait == NewFuture \/ CallSoon \/ CallLater \/ Resolve \/ Await \/ LoopRuns

SpecAwait == InitAwait /\ [][NextAwait]_vars

\* The await calls that have returned or raised.
Returned == {a \in 1..Len(awlog.awaits) : awlog.awaits[a].out.how # None}

\* C22: an await call that has returned or raised did so when its cell was
\* resolved, with the cell's outcome (the result returned, the error
\* raised), also when called from a callback of the dispatcher; and an await
\* on a cell complete at the call ran no handle of the dispatcher.
C22_AwaitOutcome ==
    \A a \in Returned :
        /\ awlog.awaits[a].out.resolved
        /\ awlog.awaits[a].out.how = awlog.outcomes[awlog.awaits[a].cell].how
        /\ awlog.awaits[a].out.val = awlog.outcomes[awlog.awaits[a].cell].val
        /\ awlog.awaits[a].doneAtCall =>
              awlog.awaits[a].out.steps = awlog.awaits[a].stepsAtCall

(***************************************************************************)
(* A task made by async() from a generator that yields cells of the        *)
(* program, pending or resolved; the program resolves the cells with       *)
(* setResult and setError, and the dispatcher runs.                        *)
(***************************************************************************)
\* async(gen): task = _Task(gen); dispatcher.scheduleHighPriority(task.send, None)
Async ==
    /\ ops < budget
    /\ task.pc = "none"
    /\ task' = [NoTask EXCEPT !.pc = "new"]
    /\ handleQueue' = scheduleHighPriority(handleQueue,
                                           Entry(nextId, "send", 0, 0, "task", {}, None))
    /\ nextId' = nextId + 1
    /\ lastStep' = [CallInfo("async", TRUE) EXCEPT !.h = "task"]
    /\ ops' = ops + 1
    /\ UNCHANGED <<lowQueue, heap, handles, poller, now, cells, invoked, delivered, queuedAt,
                   budget, queue, qlog, reader, rlog, writer, wlog, ws, wslog, clog, barrier,
                   blog, recurring, reclog, evfut, evq, elog, sock, slog, greens, awlog>>

InitAsync ==
    /\ handleQueue = <<>> /\ lowQueue = <<>> /\ heap = {}
    /\ handles = EmptyMap /\ poller = EmptyMap
    /\ now = 0 /\ cells = [c \in 1..NumCells |-> Future]
    /\ invoked = <<>> /\ delivered = <<>> /\ queuedAt = EmptyMap
    /\ lastStep = NoStep /\ nextId = 1 /\ ops = 0 /\ budget = MaxTaskOps
    /\ NoObjects

NextAsync == Async \/ SetResult \/ SetError \/ runNextHandle

\* The loop of await keeps calling runNextHandle.
SpecAsync == InitAsync /\ [][NextAsync]_vars /\ WF_vars(runNextHandle)

\* The task stands at the yield of a cell that is resolved, after n calls of
\* send and throw.
SuspendedOnResolved(n) ==
    /\ task.pc = "suspended" /\ cells[task.on].isDone
    /\ Len(task.resumed) = n

\* C37: a task that stands at the yield of a cell is resumed once the cell
\* is resolved, also when the cell was resolved before the task became its
\* callback: it does not stay suspended for ever on a resolved cell.
C37_NoLostWakeup ==
    \A n \in 0..(MaxYields + 1) : SuspendedOnResolved(n) ~> (Len(task.resumed) > n)

=========================================================================
